---- MODULE Spec2Model ----
(***************************************************************************)
(* A model of the chess engine: the position (GameState), the ray-casting  *)
(* check/pin detector, the per-piece move generators, the legal move       *)
(* filter and the negamax/alpha-beta search, each translated from the      *)
(* Python source.                                                          *)
(*                                                                         *)
(* A piece is the pair <<colour, kind>> (the source's two-character        *)
(* string "wp", "bK", ..., "--"); rows and columns are 0..7 as in the      *)
(* source, row 0 being black's back rank.  Python lists are sequences      *)
(* (1-based here), the empty tuple () is <<>>.                             *)
(***************************************************************************)
EXTENDS Integers, Sequences, FiniteSets, TLC

----------------------------------------------------------------------------
(* constants.py (imported by every source file) *)

BOARD_SIZE == 8
EMPTY_SQUARE == <<"-", "-">>
WHITE_COLOR == "w"
BLACK_COLOR == "b"
PAWN == "p"
ROOK == "R"
KNIGHT == "N"
BISHOP == "B"
QUEEN == "Q"
KING == "K"

Piece(color, kind) == <<color, kind>>
Color(piece) == piece[1]
Kind(piece) == piece[2]

Row(seq) == [c \in 0..7 |-> seq[c + 1]]

BackRank(color) ==
    Row(<< Piece(color, ROOK), Piece(color, KNIGHT), Piece(color, BISHOP),
           Piece(color, QUEEN), Piece(color, KING), Piece(color, BISHOP),
           Piece(color, KNIGHT), Piece(color, ROOK) >>)

INITIAL_BOARD ==
    [r \in 0..7 |->
        CASE r = 0 -> BackRank(BLACK_COLOR)
          [] r = 1 -> [c \in 0..7 |-> Piece(BLACK_COLOR, PAWN)]
          [] r = 6 -> [c \in 0..7 |-> Piece(WHITE_COLOR, PAWN)]
          [] r = 7 -> BackRank(WHITE_COLOR)
          [] OTHER -> [c \in 0..7 |-> EMPTY_SQUARE]]

WHITE_KING_START == <<7, 4>>
BLACK_KING_START == <<0, 4>>

OnBoard(r, c) == 0 <= r /\ r <= 7 /\ 0 <= c /\ c <= 7
Squares == (0..7) \X (0..7)

Abs(x) == IF x < 0 THEN -x ELSE x

----------------------------------------------------------------------------
(* move.py *)

CastleRights(wks, bks, wqs, bqs) ==
    [wks |-> wks, bks |-> bks, wqs |-> wqs, bqs |-> bqs]

\* Move.__init__: the pieces are read from the board the move is built on.
Move(start_square, end_square, board, is_enpassant_move, is_castle_move) ==
    LET piece_moved == board[start_square[1]][start_square[2]]
        on_end == board[end_square[1]][end_square[2]]
    IN  [start_row |-> start_square[1],
         start_col |-> start_square[2],
         end_row |-> end_square[1],
         end_col |-> end_square[2],
         piece_moved |-> piece_moved,
         piece_captured |->
            IF is_enpassant_move
            THEN (IF piece_moved = Piece(BLACK_COLOR, PAWN)
                  THEN Piece(WHITE_COLOR, PAWN) ELSE Piece(BLACK_COLOR, PAWN))
            ELSE on_end,
         is_pawn_promotion |->
            \/ (piece_moved = Piece(WHITE_COLOR, PAWN) /\ end_square[1] = 0)
            \/ (piece_moved = Piece(BLACK_COLOR, PAWN) /\ end_square[1] = 7),
         is_enpassant_move |-> is_enpassant_move,
         is_castle_move |-> is_castle_move]

\* Move.moveID, the key of Move.__eq__
moveID(m) == m.start_row * 1000 + m.start_col * 100 + m.end_row * 10 + m.end_col

----------------------------------------------------------------------------
(* ChessEngine.py: GameState *)

\* GameState.__init__.  rights_alias models object identity: it is 0 when
\* current_castling_rights is an object of its own, and i > 0 when it is the
\* very object stored at castle_rights_log[i] (undoMove assigns the log's
\* entry itself, not a copy).
NewGameState ==
    [board |-> INITIAL_BOARD,
     white_to_move |-> TRUE,
     move_log |-> <<>>,
     white_king_location |-> WHITE_KING_START,
     black_king_location |-> BLACK_KING_START,
     checkmate |-> FALSE,
     stalemate |-> FALSE,
     in_check |-> FALSE,
     pins |-> <<>>,
     checks |-> <<>>,
     enpassant_possible |-> <<>>,
     enpassant_possible_log |-> << <<>> >>,
     current_castling_rights |-> CastleRights(TRUE, TRUE, TRUE, TRUE),
     castle_rights_log |-> << CastleRights(TRUE, TRUE, TRUE, TRUE) >>,
     rights_alias |-> 0]

\* The new values of the four flags after updateCastleRights(move).
updatedRights(cr, move) ==
    LET a == IF move.piece_captured = Piece(WHITE_COLOR, ROOK)
             THEN (IF move.end_col = 0 THEN [cr EXCEPT !.wqs = FALSE]
                   ELSE IF move.end_col = 7 THEN [cr EXCEPT !.wks = FALSE]
                   ELSE cr)
             ELSE IF move.piece_captured = Piece(BLACK_COLOR, ROOK)
             THEN (IF move.end_col = 0 THEN [cr EXCEPT !.bqs = FALSE]
                   ELSE IF move.end_col = 7 THEN [cr EXCEPT !.bks = FALSE]
                   ELSE cr)
             ELSE cr
    IN  IF move.piece_moved = Piece(WHITE_COLOR, KING)
        THEN [a EXCEPT !.wqs = FALSE, !.wks = FALSE]
        ELSE IF move.piece_moved = Piece(BLACK_COLOR, KING)
        THEN [a EXCEPT !.bqs = FALSE, !.bks = FALSE]
        ELSE IF move.piece_moved = Piece(WHITE_COLOR, ROOK)
        THEN (IF move.start_row = 7
              THEN (IF move.start_col = 0 THEN [a EXCEPT !.wqs = FALSE]
                    ELSE IF move.start_col = 7 THEN [a EXCEPT !.wks = FALSE]
                    ELSE a)
              ELSE a)
        ELSE IF move.piece_moved = Piece(BLACK_COLOR, ROOK)
        THEN (IF move.start_row = 0
              THEN (IF move.start_col = 0 THEN [a EXCEPT !.bqs = FALSE]
                    ELSE IF move.start_col = 7 THEN [a EXCEPT !.bks = FALSE]
                    ELSE a)
              ELSE a)
        ELSE a

\* GameState.updateCastleRights: the flags are assigned in place, on the
\* object current_castling_rights refers to; when that object is an entry of
\* castle_rights_log the entry changes with it.
updateCastleRights(g, move) ==
    LET cr == updatedRights(g.current_castling_rights, move)
    IN  [g EXCEPT !.current_castling_rights = cr,
                  !.castle_rights_log =
                      IF g.rights_alias > 0
                      THEN [@ EXCEPT ![g.rights_alias] = cr]
                      ELSE @]

\* A faulty variant of movedBoard: an en-passant capture leaves the captured
\* pawn on the board.
movedBoardKeepsPawn(board, move) ==
    LET b1 == [board EXCEPT ![move.start_row][move.start_col] = EMPTY_SQUARE,
                            ![move.end_row][move.end_col] = move.piece_moved]
        b2 == IF move.is_pawn_promotion
              THEN [b1 EXCEPT ![move.end_row][move.end_col] =
                                  Piece(Color(move.piece_moved), QUEEN)]
              ELSE b1
    IN  IF move.is_castle_move
        THEN IF move.end_col - move.start_col = 2
             THEN [b2 EXCEPT ![move.end_row][move.end_col - 1] =
                                 b2[move.end_row][move.end_col + 1],
                             ![move.end_row][move.end_col + 1] = EMPTY_SQUARE]
             ELSE [b2 EXCEPT ![move.end_row][move.end_col + 1] =
                                 b2[move.end_row][move.end_col - 2],
                             ![move.end_row][move.end_col - 2] = EMPTY_SQUARE]
        ELSE b2

\* the board part of makeMove
movedBoard(board, move) ==
    LET b1 == [board EXCEPT ![move.start_row][move.start_col] = EMPTY_SQUARE,
                            ![move.end_row][move.end_col] = move.piece_moved]
        b2 == IF move.is_pawn_promotion
              THEN [b1 EXCEPT ![move.end_row][move.end_col] =
                                  Piece(Color(move.piece_moved), QUEEN)]
              ELSE b1
        b3 == IF move.is_enpassant_move
              THEN [b2 EXCEPT ![move.start_row][move.end_col] = EMPTY_SQUARE]
              ELSE b2
    IN  IF move.is_castle_move
        THEN IF move.end_col - move.start_col = 2
             THEN [b3 EXCEPT ![move.end_row][move.end_col - 1] =
                                 b3[move.end_row][move.end_col + 1],
                             ![move.end_row][move.end_col + 1] = EMPTY_SQUARE]
             ELSE [b3 EXCEPT ![move.end_row][move.end_col + 1] =
                                 b3[move.end_row][move.end_col - 2],
                             ![move.end_row][move.end_col - 2] = EMPTY_SQUARE]
        ELSE b3

\* A faulty variant of enpassantAfter: the test that the piece is a pawn is
\* missing.
enpassantAfterAnyPiece(move) ==
    IF Abs(move.start_row - move.end_row) = 2
    THEN << (move.start_row + move.end_row) \div 2, move.start_col >>
    ELSE <<>>

\* the en-passant target makeMove sets
enpassantAfter(move) ==
    IF Kind(move.piece_moved) = PAWN /\ Abs(move.start_row - move.end_row) = 2
    THEN << (move.start_row + move.end_row) \div 2, move.start_col >>
    ELSE <<>>

\* GameState.makeMove
makeMove(g, move) ==
    LET ep == enpassantAfter(move)
        g1 == [g EXCEPT
                 !.board = movedBoard(g.board, move),
                 !.move_log = Append(@, move),
                 !.white_to_move = ~@,
                 !.white_king_location =
                     IF move.piece_moved = Piece(WHITE_COLOR, KING)
                     THEN <<move.end_row, move.end_col>> ELSE @,
                 !.black_king_location =
                     IF move.piece_moved = Piece(BLACK_COLOR, KING)
                     THEN <<move.end_row, move.end_col>> ELSE @,
                 !.enpassant_possible = ep,
                 !.enpassant_possible_log = Append(@, ep)]
        g2 == updateCastleRights(g1, move)
    IN  [g2 EXCEPT !.castle_rights_log = Append(@, g2.current_castling_rights)]

\* the board part of undoMove
unmovedBoard(board, move) ==
    LET b1 == [board EXCEPT ![move.start_row][move.start_col] = move.piece_moved,
                            ![move.end_row][move.end_col] = move.piece_captured]
        b2 == IF move.is_enpassant_move
              THEN [b1 EXCEPT ![move.end_row][move.end_col] = EMPTY_SQUARE,
                              ![move.start_row][move.end_col] = move.piece_captured]
              ELSE b1
    IN  IF move.is_castle_move
        THEN IF move.end_col - move.start_col = 2
             THEN [b2 EXCEPT ![move.end_row][move.end_col + 1] =
                                 b2[move.end_row][move.end_col - 1],
                             ![move.end_row][move.end_col - 1] = EMPTY_SQUARE]
             ELSE [b2 EXCEPT ![move.end_row][move.end_col - 2] =
                                 b2[move.end_row][move.end_col + 1],
                             ![move.end_row][move.end_col + 1] = EMPTY_SQUARE]
        ELSE b2

ButLast(s) == SubSeq(s, 1, Len(s) - 1)
Last(s) == s[Len(s)]

\* A faulty variant of undoMove: the en-passant log is read but not popped.
undoMoveKeepsEnPassantLog(g) ==
    IF g.move_log = <<>>
    THEN g
    ELSE LET move == Last(g.move_log)
             eplog == ButLast(g.enpassant_possible_log)
             crlog == ButLast(g.castle_rights_log)
         IN  [g EXCEPT
                !.move_log = ButLast(@),
                !.board = unmovedBoard(@, move),
                !.white_to_move = ~@,
                !.white_king_location =
                    IF move.piece_moved = Piece(WHITE_COLOR, KING)
                    THEN <<move.start_row, move.start_col>> ELSE @,
                !.black_king_location =
                    IF move.piece_moved = Piece(BLACK_COLOR, KING)
                    THEN <<move.start_row, move.start_col>> ELSE @,
                !.enpassant_possible = Last(eplog),
                !.castle_rights_log = crlog,
                !.current_castling_rights = Last(crlog),
                !.rights_alias = Len(crlog),
                !.checkmate = FALSE,
                !.stalemate = FALSE]

\* A faulty variant of undoMove: checkmate and stalemate are left as they
\* are.
undoMoveFlagsKept(g) ==
    IF g.move_log = <<>>
    THEN g
    ELSE LET move == Last(g.move_log)
             eplog == ButLast(g.enpassant_possible_log)
             crlog == ButLast(g.castle_rights_log)
         IN  [g EXCEPT
                !.move_log = ButLast(@),
                !.board = unmovedBoard(@, move),
                !.white_to_move = ~@,
                !.white_king_location =
                    IF move.piece_moved = Piece(WHITE_COLOR, KING)
                    THEN <<move.start_row, move.start_col>> ELSE @,
                !.black_king_location =
                    IF move.piece_moved = Piece(BLACK_COLOR, KING)
                    THEN <<move.start_row, move.start_col>> ELSE @,
                !.enpassant_possible_log = eplog,
                !.enpassant_possible = Last(eplog),
                !.castle_rights_log = crlog,
                !.current_castling_rights = Last(crlog),
                !.rights_alias = Len(crlog)]

\* A faulty variant of undoMove: the king-square fields are left as they
\* are.
undoMoveKingNotRestored(g) ==
    IF g.move_log = <<>>
    THEN g
    ELSE LET move == Last(g.move_log)
             eplog == ButLast(g.enpassant_possible_log)
             crlog == ButLast(g.castle_rights_log)
         IN  [g EXCEPT
                !.move_log = ButLast(@),
                !.board = unmovedBoard(@, move),
                !.white_to_move = ~@,
                !.enpassant_possible_log = eplog,
                !.enpassant_possible = Last(eplog),
                !.castle_rights_log = crlog,
                !.current_castling_rights = Last(crlog),
                !.rights_alias = Len(crlog),
                !.checkmate = FALSE,
                !.stalemate = FALSE]

\* GameState.undoMove: with an empty move_log it returns at once; otherwise
\* current_castling_rights becomes the log's last entry itself.
undoMove(g) ==
    IF g.move_log = <<>>
    THEN g
    ELSE LET move == Last(g.move_log)
             eplog == ButLast(g.enpassant_possible_log)
             crlog == ButLast(g.castle_rights_log)
         IN  [g EXCEPT
                !.move_log = ButLast(@),
                !.board = unmovedBoard(@, move),
                !.white_to_move = ~@,
                !.white_king_location =
                    IF move.piece_moved = Piece(WHITE_COLOR, KING)
                    THEN <<move.start_row, move.start_col>> ELSE @,
                !.black_king_location =
                    IF move.piece_moved = Piece(BLACK_COLOR, KING)
                    THEN <<move.start_row, move.start_col>> ELSE @,
                !.enpassant_possible_log = eplog,
                !.enpassant_possible = Last(eplog),
                !.castle_rights_log = crlog,
                !.current_castling_rights = Last(crlog),
                !.rights_alias = Len(crlog),
                !.checkmate = FALSE,
                !.stalemate = FALSE]

----------------------------------------------------------------------------
(* check_detection.py *)

\* the 8 ray directions, indexed 0..7 as in the source
directions ==
    << <<-1, 0>>, <<0, -1>>, <<1, 0>>, <<0, 1>>,
       <<-1, -1>>, <<-1, 1>>, <<1, -1>>, <<1, 1>> >>

knight_moves ==
    << <<-2, -1>>, <<-2, 1>>, <<-1, 2>>, <<1, 2>>,
       <<2, -1>>, <<2, 1>>, <<-1, -2>>, <<1, -2>> >>

\* A faulty variant of isValidAttackDirection: the rook's and the bishop's
\* directions are exchanged.
isValidAttackDirectionSwapped(direction_index, piece_type, distance) ==
    LET is_orthogonal == 0 <= direction_index /\ direction_index <= 3
        is_diagonal == 4 <= direction_index /\ direction_index <= 7
    IN  \/ (is_diagonal /\ piece_type = ROOK)
        \/ (is_orthogonal /\ piece_type = BISHOP)
        \/ piece_type = QUEEN
        \/ (distance = 1 /\ piece_type = PAWN /\ direction_index \in {4, 5, 6, 7})
        \/ (distance = 1 /\ piece_type = KING)

\* _isValidAttackDirection
isValidAttackDirection(direction_index, piece_type, distance) ==
    LET is_orthogonal == 0 <= direction_index /\ direction_index <= 3
        is_diagonal == 4 <= direction_index /\ direction_index <= 7
    IN  \/ (is_orthogonal /\ piece_type = ROOK)
        \/ (is_diagonal /\ piece_type = BISHOP)
        \/ piece_type = QUEEN
        \/ (distance = 1 /\ piece_type = PAWN /\ direction_index \in {4, 5, 6, 7})
        \/ (distance = 1 /\ piece_type = KING)

\* One ray of checkForPinsAndChecks (the inner loop, from step i on): what it
\* adds to pins and to checks.
RECURSIVE castRay(_, _, _, _, _, _, _, _)
castRay(board, ally_color, enemy_color, start_row, start_col, j, i, possible_pin) ==
    LET direction == directions[j + 1]
        end_row == start_row + direction[1] * i
        end_col == start_col + direction[2] * i
        nothing == [pins |-> <<>>, checks |-> <<>>]
    IN  IF i > 7 \/ ~OnBoard(end_row, end_col)
        THEN nothing
        ELSE LET end_piece == board[end_row][end_col]
             IN  IF Color(end_piece) = ally_color /\ Kind(end_piece) # KING
                 THEN IF possible_pin = <<>>
                      THEN castRay(board, ally_color, enemy_color, start_row, start_col,
                                   j, i + 1,
                                   <<end_row, end_col, direction[1], direction[2]>>)
                      ELSE nothing
                 ELSE IF Color(end_piece) = enemy_color
                 THEN IF isValidAttackDirection(j, Kind(end_piece), i)
                      THEN IF possible_pin = <<>>
                           THEN [pins |-> <<>>,
                                 checks |-> << <<end_row, end_col,
                                                 direction[1], direction[2]>> >>]
                           ELSE [pins |-> <<possible_pin>>, checks |-> <<>>]
                      ELSE nothing
                 ELSE castRay(board, ally_color, enemy_color, start_row, start_col,
                              j, i + 1, possible_pin)

\* the loop over the directions j..7: the entries in the order of the
\* directions
RECURSIVE castRays(_, _, _, _, _, _)
castRays(board, ally_color, enemy_color, start_row, start_col, j) ==
    LET joined(ray, rest) == [pins |-> ray.pins \o rest.pins,
                              checks |-> ray.checks \o rest.checks]
    IN  IF j > 7
        THEN [pins |-> <<>>, checks |-> <<>>]
        ELSE joined(castRay(board, ally_color, enemy_color, start_row, start_col,
                            j, 1, <<>>),
                    castRays(board, ally_color, enemy_color, start_row,
                             start_col, j + 1))

\* _checkForKnightChecks: appends to the caller's checks list, in the order of
\* knight_moves; its in_check parameter is a local name, so the True it
\* assigns never reaches the caller.
checkForKnightChecks(board, start_row, start_col, enemy_color, checks) ==
    LET hit(move) ==
            /\ OnBoard(start_row + move[1], start_col + move[2])
            /\ board[start_row + move[1]][start_col + move[2]]
                   = Piece(enemy_color, KNIGHT)
        hits == SelectSeq(knight_moves, hit)
    IN  checks \o [k \in 1..Len(hits) |->
                      <<start_row + hits[k][1], start_col + hits[k][2],
                        hits[k][1], hits[k][2]>>]

\* cd.checkForPinsAndChecks(game_state): (in_check, pins, checks)
cd_checkForPinsAndChecks(g) ==
    LET enemy_color == IF g.white_to_move THEN BLACK_COLOR ELSE WHITE_COLOR
        ally_color == IF g.white_to_move THEN WHITE_COLOR ELSE BLACK_COLOR
        king == IF g.white_to_move THEN g.white_king_location
                ELSE g.black_king_location
        answer(rays) ==
            [in_check |-> rays.checks # <<>>,
             pins |-> rays.pins,
             checks |-> checkForKnightChecks(g.board, king[1], king[2],
                                             enemy_color, rays.checks)]
    IN  answer(castRays(g.board, ally_color, enemy_color, king[1], king[2], 0))

\* GameState.checkForPinsAndChecks: stores the detector's result in the
\* position's in_check, pins and checks.
checkForPinsAndChecks(g) ==
    LET stored(r) ==
            [g EXCEPT !.in_check = r.in_check, !.pins = r.pins, !.checks = r.checks]
    IN  stored(cd_checkForPinsAndChecks(g))

----------------------------------------------------------------------------
(* piece_moves.py.  A generator takes the position g, the square and the   *)
(* list it appends to, and yields the position (its pins list may lose an  *)
(* entry, a king probe overwrites in_check, pins and checks) and the list. *)

Out(g, moves) == [g |-> g, moves |-> moves]

\* the index of the pin entry of square (row, col), 0 when there is none
pinIndex(pins, row, col) ==
    LET hits == {i \in 1..Len(pins) : pins[i][1] = row /\ pins[i][2] = col}
    IN  IF hits = {} THEN 0 ELSE CHOOSE i \in hits : \A k \in hits : k <= i

\* list.remove(x): drops the first element equal to x
listRemove(list, x) ==
    LET first == CHOOSE i \in 1..Len(list) :
                    list[i] = x /\ \A k \in 1..(i - 1) : list[k] # x
    IN  SubSeq(list, 1, first - 1) \o SubSeq(list, first + 1, Len(list))

enemyOf(g) == IF g.white_to_move THEN BLACK_COLOR ELSE WHITE_COLOR
allyOf(g) == IF g.white_to_move THEN WHITE_COLOR ELSE BLACK_COLOR

\* _addEnPassantIfValid
addEnPassantIfValid(g, row, col, move_amount, col_offset, king_row, king_col, moves, enemy_color) ==
    LET inside_range ==
            IF king_col < col THEN (king_col + 1)..(col - 2)
            ELSE (col + 1)..(king_col - 1)
        outside_range ==
            IF king_col < col THEN (col + 1)..7 ELSE 0..(col - 2)
        isAttacker(square) ==
            Color(square) = enemy_color /\ Kind(square) \in {ROOK, QUEEN}
        attacking_piece ==
            /\ king_row = row
            /\ \E i \in outside_range : isAttacker(g.board[row][i])
        blocking_piece ==
            /\ king_row = row
            /\ \/ \E i \in inside_range : g.board[row][i] # EMPTY_SQUARE
               \/ \E i \in outside_range :
                     /\ ~isAttacker(g.board[row][i])
                     /\ g.board[row][i] # EMPTY_SQUARE
    IN  IF ~attacking_piece \/ blocking_piece
        THEN Append(moves, Move(<<row, col>>, <<row + move_amount, col + col_offset>>,
                                g.board, TRUE, FALSE))
        ELSE moves

\* the capture and the en-passant capture of getPawnMoves toward col + side
pawnCaptures(g, row, col, move_amount, side, piece_pinned, pin_direction, king, enemy_color, moves) ==
    IF OnBoard(row, col + side)
       /\ (~piece_pinned \/ pin_direction = <<move_amount, side>>)
    THEN LET m1 == IF Color(g.board[row + move_amount][col + side]) = enemy_color
                   THEN Append(moves, Move(<<row, col>>,
                                           <<row + move_amount, col + side>>,
                                           g.board, FALSE, FALSE))
                   ELSE moves
         IN  IF <<row + move_amount, col + side>> = g.enpassant_possible
             THEN addEnPassantIfValid(g, row, col, move_amount, side,
                                      king[1], king[2], m1, enemy_color)
             ELSE m1
    ELSE moves

\* getPawnMoves
getPawnMoves(g, row, col, moves) ==
    LET p == pinIndex(g.pins, row, col)
        piece_pinned == p > 0
        pin_direction == IF p > 0 THEN <<g.pins[p][3], g.pins[p][4]>> ELSE <<>>
        g1 == IF p > 0 THEN [g EXCEPT !.pins = listRemove(@, g.pins[p])] ELSE g
        move_amount == IF g.white_to_move THEN -1 ELSE 1
        start_row == IF g.white_to_move THEN 6 ELSE 1
        enemy_color == enemyOf(g)
        king == IF g.white_to_move THEN g.white_king_location
                ELSE g.black_king_location
        m1 == IF g.board[row + move_amount][col] = EMPTY_SQUARE
                 /\ (~piece_pinned \/ pin_direction = <<move_amount, 0>>)
              THEN LET one == Append(moves, Move(<<row, col>>,
                                                 <<row + move_amount, col>>,
                                                 g.board, FALSE, FALSE))
                   IN  IF row = start_row
                          /\ g.board[row + 2 * move_amount][col] = EMPTY_SQUARE
                       THEN Append(one, Move(<<row, col>>,
                                             <<row + 2 * move_amount, col>>,
                                             g.board, FALSE, FALSE))
                       ELSE one
              ELSE moves
        m2 == pawnCaptures(g, row, col, move_amount, -1, piece_pinned,
                           pin_direction, king, enemy_color, m1)
        m3 == pawnCaptures(g, row, col, move_amount, 1, piece_pinned,
                           pin_direction, king, enemy_color, m2)
    IN  Out(g1, m3)

\* the inner loop of getRookMoves / getBishopMoves along one direction, from
\* step i on
RECURSIVE slide(_, _, _, _, _, _, _)
slide(board, enemy_color, row, col, direction, i, moves) ==
    LET end_row == row + direction[1] * i
        end_col == col + direction[2] * i
    IN  IF i > 7 \/ ~OnBoard(end_row, end_col)
        THEN moves
        ELSE LET end_piece == board[end_row][end_col]
                 move == Move(<<row, col>>, <<end_row, end_col>>, board, FALSE, FALSE)
             IN  IF end_piece = EMPTY_SQUARE
                 THEN slide(board, enemy_color, row, col, direction, i + 1,
                            Append(moves, move))
                 ELSE IF Color(end_piece) = enemy_color
                 THEN Append(moves, move)
                 ELSE moves

\* the loop over the four directions dirs of a sliding piece
slideAll(board, enemy_color, row, col, dirs, piece_pinned, pin_direction, moves) ==
    LET along(direction) ==
            IF \/ ~piece_pinned
               \/ pin_direction = direction
               \/ pin_direction = <<-direction[1], -direction[2]>>
            THEN slide(board, enemy_color, row, col, direction, 1, <<>>)
            ELSE <<>>
    IN  moves \o along(dirs[1]) \o along(dirs[2]) \o along(dirs[3]) \o along(dirs[4])

\* getRookMoves: the pin entry stays in the list when the piece is a queen
getRookMoves(g, row, col, moves) ==
    LET p == pinIndex(g.pins, row, col)
        pin_direction == IF p > 0 THEN <<g.pins[p][3], g.pins[p][4]>> ELSE <<>>
        g1 == IF p > 0 /\ Kind(g.board[row][col]) # QUEEN
              THEN [g EXCEPT !.pins = listRemove(@, g.pins[p])] ELSE g
    IN  Out(g1, slideAll(g.board, enemyOf(g), row, col,
                         << <<-1, 0>>, <<0, -1>>, <<1, 0>>, <<0, 1>> >>,
                         p > 0, pin_direction, moves))

\* getBishopMoves
getBishopMoves(g, row, col, moves) ==
    LET p == pinIndex(g.pins, row, col)
        pin_direction == IF p > 0 THEN <<g.pins[p][3], g.pins[p][4]>> ELSE <<>>
        g1 == IF p > 0 THEN [g EXCEPT !.pins = listRemove(@, g.pins[p])] ELSE g
    IN  Out(g1, slideAll(g.board, enemyOf(g), row, col,
                         << <<-1, -1>>, <<-1, 1>>, <<1, 1>>, <<1, -1>> >>,
                         p > 0, pin_direction, moves))

\* getQueenMoves
getQueenMoves(g, row, col, moves) ==
    LET asBishop(r) == getBishopMoves(r.g, row, col, r.moves)
    IN  asBishop(getRookMoves(g, row, col, moves))

\* the loop of getKnightMoves over the 8 offsets
knightLoop(board, ally_color, row, col, moves) ==
    LET ok(move) ==
            /\ OnBoard(row + move[1], col + move[2])
            /\ Color(board[row + move[1]][col + move[2]]) # ally_color
        ends == SelectSeq(knight_moves, ok)
    IN  moves \o [k \in 1..Len(ends) |->
                     Move(<<row, col>>, <<row + ends[k][1], col + ends[k][2]>>,
                          board, FALSE, FALSE)]

\* A faulty variant of getKnightMoves: the pin test is inverted.
getKnightMovesPinnedOnly(g, row, col, moves) ==
    LET p == pinIndex(g.pins, row, col)
        g1 == IF p > 0 THEN [g EXCEPT !.pins = listRemove(@, g.pins[p])] ELSE g
    IN  Out(g1, IF p > 0
                THEN knightLoop(g.board, allyOf(g), row, col, moves)
                ELSE moves)

\* getKnightMoves
getKnightMoves(g, row, col, moves) ==
    LET p == pinIndex(g.pins, row, col)
        g1 == IF p > 0 THEN [g EXCEPT !.pins = listRemove(@, g.pins[p])] ELSE g
    IN  Out(g1, IF p > 0 THEN moves
                ELSE knightLoop(g.board, allyOf(g), row, col, moves))

row_moves == <<-1, -1, -1, 0, 0, 1, 1, 1>>
col_moves == <<-1, 0, 1, -1, 1, -1, 0, 1>>

\* the king-square field of the colour ally_color set to square
withKingAt(g, ally_color, square) ==
    IF ally_color = WHITE_COLOR
    THEN [g EXCEPT !.white_king_location = square]
    ELSE [g EXCEPT !.black_king_location = square]

\* One probe of getKingMoves: the detector's answer with the king-square
\* field moved to the destination.
kingProbe(g, ally_color, end_row, end_col) ==
    cd_checkForPinsAndChecks(withKingAt(g, ally_color, <<end_row, end_col>>))

\* The loop of getKingMoves over the neighbours i..8.  A neighbour on the
\* board that holds no allied piece is probed: the king-square field is moved
\* there, the detector is run through the GameState wrapper, which stores its
\* answer in the position, and the field is set back to (row, col).  The
\* result holds the moves added and the answer of the last probe made
\* (<<>> when no neighbour was probed).
RECURSIVE kingLoop(_, _, _, _, _)
kingLoop(g, ally_color, row, col, i) ==
    IF i > 8
    THEN [moves |-> <<>>, last |-> <<>>]
    ELSE LET end_row == row + row_moves[i]
             end_col == col + col_moves[i]
             probed == /\ OnBoard(end_row, end_col)
                       /\ Color(g.board[end_row][end_col]) # ally_color
             step(answer, rest) ==
                 [moves |-> (IF probed /\ ~answer.in_check
                             THEN << Move(<<row, col>>, <<end_row, end_col>>,
                                          g.board, FALSE, FALSE) >>
                             ELSE <<>>) \o rest.moves,
                  last |-> IF rest.last # <<>> THEN rest.last
                           ELSE IF probed THEN <<answer>> ELSE <<>>]
         IN  step(kingProbe(g, ally_color, end_row, end_col),
                  kingLoop(g, ally_color, row, col, i + 1))

\* A faulty variant of getKingMoves: the king-square field is not set back
\* after the last probe.
getKingMovesNotRestored(g, row, col, moves) ==
    LET probed == {i \in 1..8 :
                      /\ OnBoard(row + row_moves[i], col + col_moves[i])
                      /\ Color(g.board[row + row_moves[i]][col + col_moves[i]])
                             # allyOf(g)}
        final == CHOOSE i \in probed : \A k \in probed : k <= i
        looped(r) ==
            [moves |-> moves \o r.moves,
             g |-> IF r.last = <<>> THEN g
                   ELSE [withKingAt(g, allyOf(g),
                                    <<row + row_moves[final], col + col_moves[final]>>)
                            EXCEPT !.in_check = r.last[1].in_check,
                                   !.pins = r.last[1].pins,
                                   !.checks = r.last[1].checks]]
    IN  looped(kingLoop(g, allyOf(g), row, col, 1))

\* getKingMoves: after each probe the king-square field is set to (row, col),
\* the square the generator was called for
getKingMoves(g, row, col, moves) ==
    LET looped(r) ==
            [moves |-> moves \o r.moves,
             g |-> IF r.last = <<>> THEN g
                   ELSE [withKingAt(g, allyOf(g), <<row, col>>)
                            EXCEPT !.in_check = r.last[1].in_check,
                                   !.pins = r.last[1].pins,
                                   !.checks = r.last[1].checks]]
    IN  looped(kingLoop(g, allyOf(g), row, col, 1))

\* ChessEngine.py: move generation

moveFunctions(piece, g, row, col, moves) ==
    CASE piece = PAWN -> getPawnMoves(g, row, col, moves)
      [] piece = ROOK -> getRookMoves(g, row, col, moves)
      [] piece = KNIGHT -> getKnightMoves(g, row, col, moves)
      [] piece = BISHOP -> getBishopMoves(g, row, col, moves)
      [] piece = QUEEN -> getQueenMoves(g, row, col, moves)
      [] piece = KING -> getKingMoves(g, row, col, moves)

\* the body of the double loop of getAllPossibleMoves for square (row, col)
scanSquare(g, row, col, moves) ==
    LET turn == Color(g.board[row][col])
    IN  IF (turn = WHITE_COLOR /\ g.white_to_move)
           \/ (turn = BLACK_COLOR /\ ~g.white_to_move)
        THEN moveFunctions(Kind(g.board[row][col]), g, row, col, moves)
        ELSE Out(g, moves)

\* the inner loop of getAllPossibleMoves, over the columns col..7 of a row:
\* the moves added and the position afterwards
RECURSIVE scanRow(_, _, _)
scanRow(g, row, col) ==
    LET joined(moves, rest) == [moves |-> moves \o rest.moves, g |-> rest.g]
        after(r) == joined(r.moves, scanRow(r.g, row, col + 1))
    IN  IF col >= BOARD_SIZE
        THEN [moves |-> <<>>, g |-> g]
        ELSE after(scanSquare(g, row, col, <<>>))

\* the outer loop of getAllPossibleMoves, over the rows row..7
RECURSIVE scanRows(_, _)
scanRows(g, row) ==
    LET joined(moves, rest) == [moves |-> moves \o rest.moves, g |-> rest.g]
        after(r) == joined(r.moves, scanRows(r.g, row + 1))
    IN  IF row >= BOARD_SIZE
        THEN [moves |-> <<>>, g |-> g]
        ELSE after(scanRow(g, row, 0))

\* GameState.getAllPossibleMoves
getAllPossibleMoves(g) == scanRows(g, 0)

\* GameState.squareUnderAttack: the opponent's moves are generated with
\* white_to_move flipped; g is the position afterwards.
squareUnderAttack(g, row, col) ==
    LET answer(r) ==
            [g |-> [r.g EXCEPT !.white_to_move = ~@],
             result |-> \E i \in 1..Len(r.moves) :
                            r.moves[i].end_row = row /\ r.moves[i].end_col = col]
    IN  answer(getAllPossibleMoves([g EXCEPT !.white_to_move = ~@]))

\* GameState.inCheck
inCheck(g) ==
    IF g.white_to_move
    THEN squareUnderAttack(g, g.white_king_location[1], g.white_king_location[2])
    ELSE squareUnderAttack(g, g.black_king_location[1], g.black_king_location[2])

\* _getKingsideCastleMoves
getKingsideCastleMoves(g, row, col, moves) ==
    IF g.board[row][col + 1] = EMPTY_SQUARE /\ g.board[row][col + 2] = EMPTY_SQUARE
    THEN LET second(a2) ==
                 Out(a2.g,
                     IF a2.result THEN moves
                     ELSE Append(moves, Move(<<row, col>>, <<row, col + 2>>,
                                             g.board, FALSE, TRUE)))
             first(a1) ==
                 IF a1.result
                 THEN Out(a1.g, moves)
                 ELSE second(squareUnderAttack(a1.g, row, col + 2))
         IN  first(squareUnderAttack(g, row, col + 1))
    ELSE Out(g, moves)

\* _getQueensideCastleMoves
getQueensideCastleMoves(g, row, col, moves) ==
    IF /\ g.board[row][col - 1] = EMPTY_SQUARE
       /\ g.board[row][col - 2] = EMPTY_SQUARE
       /\ g.board[row][col - 3] = EMPTY_SQUARE
    THEN LET second(a2) ==
                 Out(a2.g,
                     IF a2.result THEN moves
                     ELSE Append(moves, Move(<<row, col>>, <<row, col - 2>>,
                                             g.board, FALSE, TRUE)))
             first(a1) ==
                 IF a1.result
                 THEN Out(a1.g, moves)
                 ELSE second(squareUnderAttack(a1.g, row, col - 2))
         IN  first(squareUnderAttack(g, row, col - 1))
    ELSE Out(g, moves)

\* the queenside part of getCastleMoves, after the kingside part gave ks
castleQueenside(g, row, col, ks) ==
    IF (g.white_to_move /\ g.current_castling_rights.wqs)
       \/ (~g.white_to_move /\ g.current_castling_rights.bqs)
    THEN getQueensideCastleMoves(ks.g, row, col, ks.moves)
    ELSE ks

\* getCastleMoves once the king's own square was probed with answer a
castleSides(g, row, col, moves, a) ==
    IF a.result
    THEN Out(a.g, moves)
    ELSE castleQueenside(g, row, col,
             IF (g.white_to_move /\ g.current_castling_rights.wks)
                \/ (~g.white_to_move /\ g.current_castling_rights.bks)
             THEN getKingsideCastleMoves(a.g, row, col, moves)
             ELSE Out(a.g, moves))

\* GameState.getCastleMoves
getCastleMoves(g, row, col, moves) ==
    castleSides(g, row, col, moves, squareUnderAttack(g, row, col))

\* the squares a non-king move may land on to answer the single check `check`
\* (the loop over i in getValidMoves, with its break at the checking piece's square)
validSquares(board, king_row, king_col, check) ==
    IF Kind(board[check[1]][check[2]]) = KNIGHT
    THEN { <<check[1], check[2]>> }
    ELSE LET at(i) == <<king_row + check[3] * i, king_col + check[4] * i>>
             stops == {i \in 1..7 : at(i) = <<check[1], check[2]>>}
             last == IF stops = {} THEN 7
                     ELSE CHOOSE i \in stops : \A k \in stops : i <= k
         IN  { at(i) : i \in 1..last }

\* A faulty variant of withStatus: the two flags are exchanged.
withStatusSwapped(g, moves) ==
    LET ended(c) == IF c.result THEN [c.g EXCEPT !.stalemate = TRUE]
                    ELSE [c.g EXCEPT !.checkmate = TRUE]
    IN  IF moves = <<>>
        THEN ended(inCheck(g))
        ELSE [g EXCEPT !.checkmate = FALSE, !.stalemate = FALSE]

\* the game-status part of getValidMoves
withStatus(g, moves) ==
    LET ended(c) == IF c.result THEN [c.g EXCEPT !.checkmate = TRUE]
                    ELSE [c.g EXCEPT !.stalemate = TRUE]
    IN  IF moves = <<>>
        THEN ended(inCheck(g))
        ELSE [g EXCEPT !.checkmate = FALSE, !.stalemate = FALSE]

\* the square of the king of the side to move
kingOf(g) == IF g.white_to_move THEN g.white_king_location
             ELSE g.black_king_location

Raised(g) == [g |-> g, moves |-> <<>>, raised |-> TRUE]
NotRaised(r) == [g |-> r.g, moves |-> r.moves, raised |-> FALSE]

\* getValidMoves under a single check, once getAllPossibleMoves gave r: the
\* moves are filtered by the squares that answer self.checks[0]
answerCheck(r, king) ==
    IF r.g.checks = <<>>
    THEN Raised(r.g)
    ELSE LET valid_squares ==
                 validSquares(r.g.board, king[1], king[2], r.g.checks[1])
             keep(m) ==
                 \/ Kind(m.piece_moved) = KING
                 \/ <<m.end_row, m.end_col>> \in valid_squares
         IN  NotRaised(Out(r.g, SelectSeq(r.moves, keep)))

\* getValidMoves out of check, once getAllPossibleMoves gave r
withCastleMoves(r, king) == getCastleMoves(r.g, king[1], king[2], r.moves)

\* the moves getValidMoves collects in the position g0 the detector left
generated(g0, king) ==
    IF g0.in_check
    THEN IF Len(g0.checks) = 1
         THEN answerCheck(getAllPossibleMoves(g0), king)
         ELSE NotRaised(getKingMoves(g0, king[1], king[2], <<>>))
    ELSE NotRaised(withCastleMoves(getAllPossibleMoves(g0), king))

\* the end of getValidMoves: the game status is set and the castling rights
\* saved on entry are put back (as an object of their own)
returned(g, r) ==
    IF r.raised
    THEN r
    ELSE [g |-> [withStatus(r.g, r.moves) EXCEPT
                    !.current_castling_rights = g.current_castling_rights,
                    !.rights_alias = 0],
          moves |-> r.moves,
          raised |-> FALSE]

\* GameState.getValidMoves: the position afterwards, the list returned, and
\* raised = TRUE when self.checks[0] raises IndexError (the list is empty by
\* the time it is read: the probes of getKingMoves have replaced it).
getValidMoves(g) ==
    returned(g, generated(checkForPinsAndChecks(g), kingOf(g)))

----------------------------------------------------------------------------
(* The program driving one GameState: a caller that asks for the valid     *)
(* moves, makes one of the moves it was given, and undoes moves.  This is  *)
(* what ChessAI.py does inside a search and what a game loop does between  *)
(* turns.                                                                  *)

VARIABLES
    game_state,     \* the GameState object
    valid_moves,    \* the caller's lists: valid_moves[k + 1] is the list
                    \* getValidMoves returned for the position after k moves,
                    \* while that position is on the path of move_log
    raised,         \* TRUE once getValidMoves has raised IndexError
    op,             \* the name of the last call made on game_state
    undone,         \* <<m>> when the last call was an undoMove that took m
                    \* back, else <<>>
    undos,          \* how many undoMove calls were made in a row just now
    ai              \* the state of a ChessAI.findBestMove call in progress

vars == <<game_state, valid_moves, raised, op, undone, undos, ai>>

\* the caller has not yet asked for the moves of a position
NotAsked == [asked |-> FALSE, moves |-> <<>>]
Asked(moves) == [asked |-> TRUE, moves |-> moves]

\* no search in progress
Idle == [pc |-> "idle"]

coords(m) == <<m.start_row, m.start_col, m.end_row, m.end_col>>
logCoords(g) == [k \in 1..Len(g.move_log) |-> coords(g.move_log[k])]

\* Scripted games, as (start_row, start_col, end_row, end_col) per move.
FoolsMate ==
    << <<6, 5, 5, 5>>, <<1, 4, 3, 4>>, <<6, 6, 4, 6>>, <<0, 3, 4, 7>> >>
KnightCheck ==
    << <<7, 1, 5, 2>>, <<1, 0, 2, 0>>, <<5, 2, 3, 1>>, <<2, 0, 3, 0>>,
       <<3, 1, 2, 3>> >>
EnPassant ==
    << <<6, 4, 4, 4>>, <<1, 0, 2, 0>>, <<4, 4, 3, 4>>, <<1, 3, 3, 3>>,
       <<3, 4, 2, 3>> >>
ScriptedLines == {FoolsMate, KnightCheck, EnPassant}

\* the number of moves a caller may make off the scripted lines
MaxFree == 1
\* the number of undoMove calls a caller may make in a row
MaxUndo == 1

IsPrefix(s, t) == Len(s) <= Len(t) /\ s = SubSeq(t, 1, Len(s))
Scripted(log) == \E line \in ScriptedLines : IsPrefix(log, line)
\* how many moves at the end of log are off the scripted lines
offScript(log) ==
    LET on == {k \in 0..Len(log) : Scripted(SubSeq(log, 1, k))}
    IN  Len(log) - (CHOOSE k \in on : \A j \in on : j <= k)

Init ==
    /\ game_state = NewGameState
    /\ valid_moves = <<NotAsked>>
    /\ raised = FALSE
    /\ op = "init"
    /\ undone = <<>>
    /\ undos = 0
    /\ ai = Idle

\* valid_moves = game_state.getValidMoves()
GetValidMoves ==
    /\ ~raised
    /\ ai = Idle
    /\ LET assigned(r) ==
               /\ game_state' = r.g
               /\ raised' = r.raised
               /\ valid_moves' =
                      IF r.raised THEN valid_moves
                      ELSE [valid_moves EXCEPT ![Len(valid_moves)] = Asked(r.moves)]
       IN  assigned(getValidMoves(game_state))
    /\ op' = "getValidMoves"
    /\ undone' = <<>>
    /\ undos' = 0
    /\ UNCHANGED ai

\* game_state.makeMove(move), for a move of the list the caller holds for
\* the current position
MakeMove(move) ==
    /\ ~raised
    /\ ai = Idle
    /\ offScript(Append(logCoords(game_state), coords(move))) <= MaxFree
    /\ game_state' = makeMove(game_state, move)
    /\ valid_moves' = Append(valid_moves, NotAsked)
    /\ op' = "makeMove"
    /\ undone' = <<>>
    /\ undos' = 0
    /\ UNCHANGED <<raised, ai>>

\* game_state.undoMove()
UndoMove ==
    /\ ~raised
    /\ ai = Idle
    /\ undos < MaxUndo
    /\ undos' = undos + 1
    /\ game_state' = undoMove(game_state)
    /\ valid_moves' = IF game_state.move_log = <<>> THEN valid_moves
                      ELSE ButLast(valid_moves)
    /\ op' = "undoMove"
    /\ undone' = IF game_state.move_log = <<>> THEN <<>>
                 ELSE <<Last(game_state.move_log)>>
    /\ UNCHANGED <<raised, ai>>

Next ==
    \/ GetValidMoves
    \/ \E i \in 1..Len(Last(valid_moves).moves) :
           MakeMove(Last(valid_moves).moves[i])
    \/ UndoMove

Spec == Init /\ [][Next]_vars

----------------------------------------------------------------------------
(* Longer games, played move by move from the lists getValidMoves returns. *)

\* Nc3 a6 Nb5 a5 Nd6+ h6 Nf3 h5 Nd4 h4 Ne6 a4 Nxc7: both white knights
\* attack the king on e8
TwoKnights ==
    << <<7, 1, 5, 2>>, <<1, 0, 2, 0>>, <<5, 2, 3, 1>>, <<2, 0, 3, 0>>,
       <<3, 1, 2, 3>>, <<1, 7, 2, 7>>, <<7, 6, 5, 5>>, <<2, 7, 3, 7>>,
       <<5, 5, 4, 3>>, <<3, 7, 4, 7>>, <<4, 3, 2, 4>>, <<3, 0, 4, 0>>,
       <<2, 4, 1, 2>> >>
\* Nc3 a6 Nb5 a5 Nd6+ h6 Nxe8
KingCapture ==
    << <<7, 1, 5, 2>>, <<1, 0, 2, 0>>, <<5, 2, 3, 1>>, <<2, 0, 3, 0>>,
       <<3, 1, 2, 3>>, <<1, 7, 2, 7>>, <<2, 3, 0, 4>> >>
\* e4 e5 d3 Bb4+
BishopCheck ==
    << <<6, 4, 4, 4>>, <<1, 4, 3, 4>>, <<6, 3, 5, 3>>, <<0, 5, 4, 1>> >>
\* Nf3 d5 g3 d4 Bg2 d3 a3 dxe2: the black pawn on e2 attacks f1
CastleThroughPawn ==
    << <<7, 6, 5, 5>>, <<1, 3, 3, 3>>, <<6, 6, 5, 6>>, <<3, 3, 4, 3>>,
       <<7, 5, 6, 6>>, <<4, 3, 5, 3>>, <<6, 0, 5, 0>>, <<5, 3, 6, 4>> >>
\* h4 b5 Rh3 b4 Ra3 bxa3: white's king's rook is captured on a3
RookCapture ==
    << <<6, 7, 4, 7>>, <<1, 1, 3, 1>>, <<7, 7, 5, 7>>, <<3, 1, 4, 1>>,
       <<5, 7, 5, 0>>, <<4, 1, 5, 0>> >>
\* d4 d6 Qd2 e5 a4 e4 Qf4 f5 h3 Be7 Qh2 Be6 Ra3 c5 Nd2 Qa5 Rg3 Bh4 f3 Bb3
\* d5 e3 c4 f4: white has no move and is not attacked
Stalemate ==
    << <<6, 3, 4, 3>>, <<1, 3, 2, 3>>, <<7, 3, 6, 3>>, <<1, 4, 3, 4>>,
       <<6, 0, 4, 0>>, <<3, 4, 4, 4>>, <<6, 3, 4, 5>>, <<1, 5, 3, 5>>,
       <<6, 7, 5, 7>>, <<0, 5, 1, 4>>, <<4, 5, 6, 7>>, <<0, 2, 2, 4>>,
       <<7, 0, 5, 0>>, <<1, 2, 3, 2>>, <<7, 1, 6, 3>>, <<0, 3, 3, 0>>,
       <<5, 0, 5, 6>>, <<1, 4, 4, 7>>, <<6, 5, 5, 5>>, <<2, 4, 5, 1>>,
       <<4, 3, 3, 3>>, <<4, 4, 5, 4>>, <<6, 2, 4, 2>>, <<3, 5, 4, 5>> >>
\* e3 e5 d3 d5 b3 Bg4 Ba3 a6 g3 h6 h4 Bb4+: the bishop on b4 attacks the
\* king on e1, with white's bishop on a3 behind it
UnansweredCheck ==
    << <<6, 4, 5, 4>>, <<1, 4, 3, 4>>, <<6, 3, 5, 3>>, <<1, 3, 3, 3>>,
       <<6, 1, 5, 1>>, <<0, 2, 4, 6>>, <<7, 2, 5, 0>>, <<1, 0, 2, 0>>,
       <<6, 6, 5, 6>>, <<1, 7, 2, 7>>, <<6, 7, 4, 7>>, <<0, 5, 4, 1>> >>
\* e4 d5 exd5 e6 dxe6 Bxe6 Qe2 f6 a3: the queen on e2 pins the bishop on
\* e6 to the king on e8, whose neighbours d7, e7 and f7 are empty
PinnedBishop ==
    << <<6, 4, 4, 4>>, <<1, 3, 3, 3>>, <<4, 4, 3, 3>>, <<1, 4, 2, 4>>,
       <<3, 3, 2, 4>>, <<0, 2, 2, 4>>, <<7, 3, 6, 4>>, <<1, 5, 2, 5>>,
       <<6, 0, 5, 0>> >>
\* Nf3 d5 g3 Nc6 Bg2 Bf5 O-O Qd7 a3 O-O-O: white castles on the king's
\* wing, black on the queen's
BothCastle ==
    << <<7, 6, 5, 5>>, <<1, 3, 3, 3>>, <<6, 6, 5, 6>>, <<0, 1, 2, 2>>,
       <<7, 5, 6, 6>>, <<0, 2, 3, 5>>, <<7, 4, 7, 6>>, <<0, 3, 1, 3>>,
       <<6, 0, 5, 0>>, <<0, 4, 0, 2>> >>
GameLines ==
    {FoolsMate, TwoKnights, KingCapture, BishopCheck, CastleThroughPawn,
     RookCapture, Stalemate, UnansweredCheck, PinnedBishop, BothCastle}

\* game_state.makeMove(move) for the next move of one of the GameLines, taken
\* from the list the caller holds for the current position
MakeGameMove(move) ==
    /\ ~raised
    /\ ai = Idle
    /\ \E line \in GameLines :
           IsPrefix(Append(logCoords(game_state), coords(move)), line)
    /\ game_state' = makeMove(game_state, move)
    /\ valid_moves' = Append(valid_moves, NotAsked)
    /\ op' = "makeMove"
    /\ undone' = <<>>
    /\ undos' = 0
    /\ UNCHANGED <<raised, ai>>

NextGames ==
    \/ GetValidMoves
    \/ \E i \in 1..Len(Last(valid_moves).moves) :
           MakeGameMove(Last(valid_moves).moves[i])
    \/ UndoMove

SpecGames == Init /\ [][NextGames]_vars

----------------------------------------------------------------------------
(* The detector on its own: checkForPinsAndChecks applied to boards that   *)
(* hold the king of the side to move, one enemy piece and at most one      *)
(* allied piece.                                                           *)

EMPTY_BOARD == [r \in 0..7 |-> [c \in 0..7 |-> EMPTY_SQUARE]]

\* the squares the king is put on: e1 and d5
DetectorKingSquares == { <<7, 4>>, <<3, 3>> }
\* where the allied piece (a knight) may stand: next to e1 on its file, its
\* rank and a diagonal, and next to d5
DetectorAllySquares == { <<6, 4>>, <<7, 3>>, <<6, 5>>, <<2, 3>> }

\* the GameState holding such a board
DetectorState(white_to_move, king, enemy_kind, enemy_square, allies) ==
    LET ally == IF white_to_move THEN WHITE_COLOR ELSE BLACK_COLOR
        enemy == IF white_to_move THEN BLACK_COLOR ELSE WHITE_COLOR
        board == [r \in 0..7 |-> [c \in 0..7 |->
                     IF <<r, c>> = king THEN Piece(ally, KING)
                     ELSE IF <<r, c>> = enemy_square THEN Piece(enemy, enemy_kind)
                     ELSE IF <<r, c>> \in allies THEN Piece(ally, KNIGHT)
                     ELSE EMPTY_SQUARE]]
    IN  [NewGameState EXCEPT
            !.board = board,
            !.white_to_move = white_to_move,
            !.white_king_location = IF white_to_move THEN king ELSE @,
            !.black_king_location = IF white_to_move THEN @ ELSE king]

InitDetector ==
    /\ \E white_to_move \in BOOLEAN, king \in DetectorKingSquares,
          enemy_kind \in {PAWN, ROOK, KNIGHT, BISHOP, QUEEN, KING},
          enemy_square \in Squares,
          allies \in {{}} \cup {{sq} : sq \in DetectorAllySquares} :
           /\ enemy_square # king
           /\ enemy_square \notin allies
           /\ king \notin allies
           /\ game_state = DetectorState(white_to_move, king, enemy_kind,
                                         enemy_square, allies)
    /\ valid_moves = <<NotAsked>>
    /\ raised = FALSE
    /\ op = "init"
    /\ undone = <<>>
    /\ undos = 0
    /\ ai = Idle

\* game_state.checkForPinsAndChecks()
CheckForPinsAndChecks ==
    /\ op = "init"
    /\ game_state' = checkForPinsAndChecks(game_state)
    /\ op' = "checkForPinsAndChecks"
    /\ UNCHANGED <<valid_moves, raised, undone, undos, ai>>

SpecDetector == InitDetector /\ [][CheckForPinsAndChecks]_vars

----------------------------------------------------------------------------
(* evaluation.py and ChessAI.py *)

\* constants.py is not among the sources.  CHECKMATE_SCORE and
\* STALEMATE_SCORE are the values scoreBoard's docstring gives; the piece
\* values and the position table stand for the tables of constants.py.
CHECKMATE_SCORE == 1000
STALEMATE_SCORE == 0

PIECE_VALUES(kind) ==
    CASE kind = KING -> 0
      [] kind = QUEEN -> 9
      [] kind = ROOK -> 5
      [] kind = BISHOP -> 3
      [] kind = KNIGHT -> 3
      [] kind = PAWN -> 1

\* one point for a piece on the 16 central squares
PIECE_POSITION_SCORES(piece, row, col) ==
    IF 2 <= row /\ row <= 5 /\ 2 <= col /\ col <= 5 THEN 1 ELSE 0

\* the search depth (constants.AI_DEPTH)
AI_DEPTH == 2

\* what one square adds to the score (the body of scoreBoard's loops)
squareValue(board, row, col) ==
    LET piece == board[row][col]
        piece_value == PIECE_VALUES(Kind(piece))
        piece_position_score ==
            IF Kind(piece) # KING
            THEN PIECE_POSITION_SCORES(piece, row, col) ELSE 0
        total_piece_value == piece_value + piece_position_score
    IN  IF Color(piece) = WHITE_COLOR THEN total_piece_value
        ELSE -total_piece_value

\* the score summed over the occupied squares S
RECURSIVE scoreSquares(_, _)
scoreSquares(board, S) ==
    IF S = {} THEN 0
    ELSE LET sq == CHOOSE x \in S : TRUE
         IN  squareValue(board, sq[1], sq[2]) + scoreSquares(board, S \ {sq})

\* evaluation.scoreBoard
scoreBoard(g) ==
    IF g.checkmate
    THEN (IF g.white_to_move THEN -CHECKMATE_SCORE ELSE CHECKMATE_SCORE)
    ELSE IF g.stalemate
    THEN STALEMATE_SCORE
    ELSE scoreSquares(g.board,
                      {sq \in Squares : g.board[sq[1]][sq[2]] # EMPTY_SQUARE})

\* One activation of findMoveNegaMaxAlphaBeta: its arguments, its local
\* max_score, the index i of the move the loop is at, and whether the loop
\* was left by break.
Frame(moves, depth, alpha, beta, turn_multiplier) ==
    [valid_moves |-> moves, depth |-> depth, alpha |-> alpha, beta |-> beta,
     turn_multiplier |-> turn_multiplier, max_score |-> -CHECKMATE_SCORE,
     i |-> 1, broke |-> FALSE]

\* the activation has reached its return statement
Returning(f) == f.depth = 0 \/ f.broke \/ f.i > Len(f.valid_moves)
\* the value it returns
Returned(f, g) ==
    IF f.depth = 0 THEN f.turn_multiplier * scoreBoard(g) ELSE f.max_score

Reverse(s) == [k \in 1..Len(s) |-> s[Len(s) + 1 - k]]
\* the orders random.shuffle(valid_moves) is taken to produce
Shuffles(moves) == {moves, Reverse(moves)}

\* the games played before a search is started
ForcedMate ==
    << <<6, 7, 5, 7>>, <<1, 4, 2, 4>>, <<6, 5, 5, 5>>, <<0, 3, 4, 7>> >>
OpenGame == << <<6, 4, 4, 4>>, <<1, 4, 3, 4>> >>
SearchLines == {ForcedMate, OpenGame}
\* the positions findBestMove is called in: the initial one, after e4, after
\* e4 e5, and white's after h3 e6 f3 Qh4+
SearchRoots == {<<>>, SubSeq(OpenGame, 1, 1), OpenGame, ForcedMate}

\* game_state.makeMove(move) for the next move of one of the SearchLines
MakeScripted(move) ==
    /\ ~raised
    /\ ai = Idle
    /\ \E line \in SearchLines :
           IsPrefix(Append(logCoords(game_state), coords(move)), line)
    /\ game_state' = makeMove(game_state, move)
    /\ valid_moves' = Append(valid_moves, NotAsked)
    /\ op' = "makeMove"
    /\ UNCHANGED <<raised, undone, undos, ai>>

\* the start of a search over the moves in the given order: pruning = TRUE
\* is findMoveNegaMaxAlphaBeta as written, pruning = FALSE the same walk
\* without the break; cutoff records that some loop was left by break
Search(order, pruning, before, first) ==
    [pc |-> "search",
     stack |-> <<Frame(order, AI_DEPTH, -CHECKMATE_SCORE, CHECKMATE_SCORE,
                       IF game_state.white_to_move THEN 1 ELSE -1)>>,
     next_move |-> <<>>,
     return_queue |-> <<>>,
     score |-> 0,
     cutoff |-> FALSE,
     order |-> order,
     pruning |-> pruning,
     before |-> before,
     first |-> first]

\* findBestMove(game_state, valid_moves, return_queue), up to its call of
\* findMoveNegaMaxAlphaBeta: next_move = None (<<>> here) and the shuffle
FindBestMove ==
    /\ ~raised
    /\ ai = Idle
    /\ logCoords(game_state) \in SearchRoots
    /\ Last(valid_moves).asked
    /\ \E order \in Shuffles(Last(valid_moves).moves) :
           ai' = Search(order, TRUE, game_state, <<>>)
    /\ op' = "findBestMove"
    /\ UNCHANGED <<game_state, valid_moves, raised, undone, undos>>

\* A faulty variant of childWindow: the bounds are negated but not
\* exchanged.
childWindowNotExchanged(alpha, beta) == [alpha |-> -alpha, beta |-> -beta]

\* the window handed to the recursive call: -beta, -alpha
childWindow(alpha, beta) == [alpha |-> -beta, beta |-> -alpha]

\* One pass through lines 53-60 of the loop: makeMove(move), getValidMoves()
\* and the recursive call with the negated, exchanged window.
Visit ==
    /\ ai.pc = "search"
    /\ LET f == Last(ai.stack)
           window == childWindow(f.alpha, f.beta)
           called(r) ==
               /\ game_state' = r.g
               /\ raised' = r.raised
               /\ ai' = IF r.raised
                        THEN [ai EXCEPT !.pc = "raised"]
                        ELSE [ai EXCEPT !.stack =
                                  Append(@, Frame(r.moves, f.depth - 1,
                                                  window.alpha, window.beta,
                                                  -f.turn_multiplier))]
       IN  /\ ~Returning(f)
           /\ called(getValidMoves(makeMove(game_state, f.valid_moves[f.i])))
    /\ op' = "getValidMoves"
    /\ UNCHANGED <<valid_moves, undone, undos>>

\* The callee returns and the caller runs lines 57-73: the negated score,
\* max_score and next_move, undoMove(), alpha and the break.
Return ==
    /\ ai.pc = "search"
    /\ Len(ai.stack) > 1
    /\ LET f == Last(ai.stack)
           caller == ai.stack[Len(ai.stack) - 1]
           score == -Returned(f, game_state)
           better == score > caller.max_score
           max_score == IF better THEN score ELSE caller.max_score
           alpha == IF max_score > caller.alpha THEN max_score ELSE caller.alpha
       IN  /\ Returning(f)
           /\ game_state' = undoMove(game_state)
           /\ ai' = [ai EXCEPT
                        !.stack = Append(SubSeq(@, 1, Len(@) - 2),
                                         [caller EXCEPT
                                             !.max_score = max_score,
                                             !.alpha = alpha,
                                             !.broke = ai.pruning /\ alpha >= caller.beta,
                                             !.i = @ + 1]),
                        !.next_move =
                            IF better /\ caller.depth = AI_DEPTH
                            THEN <<caller.valid_moves[caller.i]>> ELSE @,
                        !.cutoff = @ \/ (ai.pruning /\ alpha >= caller.beta)]
    /\ op' = "undoMove"
    /\ UNCHANGED <<valid_moves, raised, undone, undos>>

\* The outermost activation returns and findBestMove runs
\* return_queue.put(next_move).
Finish ==
    /\ ai.pc = "search"
    /\ Len(ai.stack) = 1
    /\ Returning(ai.stack[1])
    /\ ai' = [ai EXCEPT !.pc = "done",
                        !.stack = <<>>,
                        !.score = Returned(ai.stack[1], game_state),
                        !.return_queue = <<ai.next_move>>]
    /\ op' = "put"
    /\ UNCHANGED <<game_state, valid_moves, raised, undone, undos>>

\* After findBestMove has returned, the full-width search of the same
\* position is run for comparison: from the position as it was given, over
\* the same order of the moves, without the break.
FullWidth ==
    /\ ai.pc = "done"
    /\ ai.pruning
    /\ game_state' = ai.before
    /\ ai' = [Search(ai.order, FALSE, ai.before,
                     <<[score |-> ai.score, next_move |-> ai.next_move,
                        cutoff |-> ai.cutoff]>>)
                 EXCEPT !.stack[1].turn_multiplier =
                            IF ai.before.white_to_move THEN 1 ELSE -1]
    /\ op' = "fullWidth"
    /\ UNCHANGED <<valid_moves, raised, undone, undos>>

NextSearch ==
    \/ GetValidMoves
    \/ \E i \in 1..Len(Last(valid_moves).moves) :
           MakeScripted(Last(valid_moves).moves[i])
    \/ FindBestMove
    \/ Visit
    \/ Return
    \/ Finish
    \/ FullWidth

SpecSearch == Init /\ [][NextSearch]_vars

----------------------------------------------------------------------------
(* The rules of chess the claims refer to, stated on the board alone and   *)
(* independently of the engine's detector.                                 *)

Sign(x) == IF x > 0 THEN 1 ELSE IF x < 0 THEN -1 ELSE 0
Max(a, b) == IF a >= b THEN a ELSE b

\* the squares strictly between two squares of one rank, file or diagonal
Between(from, to) ==
    LET dr == Sign(to[1] - from[1])
        dc == Sign(to[2] - from[2])
        n == Max(Abs(to[1] - from[1]), Abs(to[2] - from[2]))
    IN  { <<from[1] + dr * k, from[2] + dc * k>> : k \in 1..(n - 1) }

\* the piece standing on `from` attacks the square `to`
Attacks(board, from, to) ==
    LET piece == board[from[1]][from[2]]
        dr == to[1] - from[1]
        dc == to[2] - from[2]
        straight == (dr = 0 \/ dc = 0) /\ from # to
        diagonal == Abs(dr) = Abs(dc) /\ from # to
        clear == \A sq \in Between(from, to) : board[sq[1]][sq[2]] = EMPTY_SQUARE
    IN  CASE Kind(piece) = PAWN ->
                 /\ Abs(dc) = 1
                 /\ dr = (IF Color(piece) = WHITE_COLOR THEN -1 ELSE 1)
          [] Kind(piece) = KNIGHT -> {Abs(dr), Abs(dc)} = {1, 2}
          [] Kind(piece) = KING -> Max(Abs(dr), Abs(dc)) = 1
          [] Kind(piece) = ROOK -> straight /\ clear
          [] Kind(piece) = BISHOP -> diagonal /\ clear
          [] Kind(piece) = QUEEN -> (straight \/ diagonal) /\ clear
          [] OTHER -> FALSE

\* some piece of the other colour attacks the square
Attacked(board, color, square) ==
    \E from \in Squares :
        /\ board[from[1]][from[2]] # EMPTY_SQUARE
        /\ Color(board[from[1]][from[2]]) # color
        /\ Attacks(board, from, square)

KingSquare(board, color) ==
    CHOOSE sq \in Squares : board[sq[1]][sq[2]] = Piece(color, KING)

\* the squares holding a king of the colour
Kings(board, color) ==
    {sq \in Squares : board[sq[1]][sq[2]] = Piece(color, KING)}

\* the squares of the other colour's pieces that attack the square
Attackers(board, color, square) ==
    {from \in Squares :
        /\ board[from[1]][from[2]] # EMPTY_SQUARE
        /\ Color(board[from[1]][from[2]]) # color
        /\ Attacks(board, from, square)}

\* the colour of the side to move
ToMove(g) == IF g.white_to_move THEN WHITE_COLOR ELSE BLACK_COLOR

\* the home corner of the rook of the colour on the queen's (0) or king's (7)
\* wing
HomeCorner(color, col) == <<IF color = WHITE_COLOR THEN 7 ELSE 0, col>>

\* the castling rights after a move, by the rules: a king move clears both
\* rights of its side, a rook leaving its home corner and a rook captured on
\* its home corner clear the right of that corner
RightsByRule(cr, m) ==
    LET from == <<m.start_row, m.start_col>>
        to == <<m.end_row, m.end_col>>
        lost(color, col) ==
            \/ m.piece_moved = Piece(color, KING)
            \/ (m.piece_moved = Piece(color, ROOK) /\ from = HomeCorner(color, col))
            \/ (m.piece_captured = Piece(color, ROOK) /\ to = HomeCorner(color, col))
    IN  [wks |-> cr.wks /\ ~lost(WHITE_COLOR, 7),
         wqs |-> cr.wqs /\ ~lost(WHITE_COLOR, 0),
         bks |-> cr.bks /\ ~lost(BLACK_COLOR, 7),
         bqs |-> cr.bqs /\ ~lost(BLACK_COLOR, 0)]

\* the persisted position: what a query is to leave as it found it
Persisted(g) ==
    <<g.board, g.white_to_move, g.white_king_location, g.black_king_location,
      g.enpassant_possible, g.current_castling_rights, g.move_log,
      g.castle_rights_log, g.enpassant_possible_log>>

\* what makeMove followed by undoMove is to restore
Observed(g) ==
    <<g.board, g.white_to_move, g.current_castling_rights,
      g.enpassant_possible, g.white_king_location, g.black_king_location>>

----------------------------------------------------------------------------
(* En-passant captures on the king's rank.  The positions hold both kings, *)
(* a pawn of the capturing side on the rank of its king, an enemy pawn on  *)
(* its home row on a neighbouring file, an enemy rook or queen on the      *)
(* king's rank and at most one more piece on that rank.  The enemy pawn    *)
(* makes its double step and the capturing side asks for its moves.        *)

\* the columns the capturing side's king is put on
RankKingCols == {0, 7}
\* the columns the capturing pawn is put on
RankPawnCols == {3, 4}

NoRights == CastleRights(FALSE, FALSE, FALSE, FALSE)

OtherColor(color) == IF color = WHITE_COLOR THEN BLACK_COLOR ELSE WHITE_COLOR

\* a row counted from the far side of the capturing colour: white captures
\* from row 3, black from row 4
Mirror(capturer, r) == IF capturer = WHITE_COLOR THEN r ELSE 7 - r

\* the GameState before the double step; extra is a set of at most one
\* <<column, piece>> standing on the king's rank
RankState(capturer, king_col, pawn_col, side, attacker_kind, attacker_col, extra) ==
    LET enemy == OtherColor(capturer)
        rank == Mirror(capturer, 3)
        extraAt(c) == CHOOSE e \in extra : e[1] = c
        board == [r \in 0..7 |-> [c \in 0..7 |->
                     IF r = rank /\ c = king_col THEN Piece(capturer, KING)
                     ELSE IF r = rank /\ c = pawn_col THEN Piece(capturer, PAWN)
                     ELSE IF r = rank /\ c = attacker_col
                     THEN Piece(enemy, attacker_kind)
                     ELSE IF r = rank /\ (\E e \in extra : e[1] = c)
                     THEN extraAt(c)[2]
                     ELSE IF r = Mirror(capturer, 1) /\ c = pawn_col + side
                     THEN Piece(enemy, PAWN)
                     ELSE IF r = Mirror(capturer, 0) /\ c = 7
                     THEN Piece(enemy, KING)
                     ELSE EMPTY_SQUARE]]
    IN  [NewGameState EXCEPT
            !.board = board,
            !.white_to_move = (enemy = WHITE_COLOR),
            !.white_king_location =
                IF capturer = WHITE_COLOR THEN <<rank, king_col>> ELSE <<7, 7>>,
            !.black_king_location =
                IF capturer = BLACK_COLOR THEN <<rank, king_col>> ELSE <<0, 7>>,
            !.current_castling_rights = NoRights,
            !.castle_rights_log = <<NoRights>>]

\* the extra pieces: none, or a knight of either colour on a column
RankExtras ==
    {{}} \cup {{<<c, Piece(color, KNIGHT)>>} :
                  c \in 0..7, color \in {WHITE_COLOR, BLACK_COLOR}}

InitEnPassant ==
    /\ \E capturer \in {WHITE_COLOR, BLACK_COLOR}, king_col \in RankKingCols,
          pawn_col \in RankPawnCols, side \in {-1, 1},
          attacker_kind \in {ROOK, QUEEN}, attacker_col \in 0..7,
          extra \in RankExtras :
           LET g == RankState(capturer, king_col, pawn_col, side,
                              attacker_kind, attacker_col, extra)
               taken == {king_col, pawn_col, pawn_col + side}
           IN  /\ attacker_col \notin taken
               /\ \A e \in extra : e[1] \notin taken \cup {attacker_col}
               /\ ~Attacked(g.board, capturer, <<Mirror(capturer, 3), king_col>>)
               /\ game_state = g
    /\ valid_moves = <<NotAsked>>
    /\ raised = FALSE
    /\ op = "init"
    /\ undone = <<>>
    /\ undos = 0
    /\ ai = Idle

\* game_state.makeMove(move) for a pawn's double step taken from the list the
\* caller holds for the first position
MakeDoubleStep(move) ==
    /\ ~raised
    /\ ai = Idle
    /\ game_state.move_log = <<>>
    /\ Kind(move.piece_moved) = PAWN
    /\ Abs(move.end_row - move.start_row) = 2
    /\ game_state' = makeMove(game_state, move)
    /\ valid_moves' = Append(valid_moves, NotAsked)
    /\ op' = "makeMove"
    /\ undone' = <<>>
    /\ undos' = 0
    /\ UNCHANGED <<raised, ai>>

NextEnPassant ==
    \/ GetValidMoves
    \/ \E i \in 1..Len(Last(valid_moves).moves) :
           MakeDoubleStep(Last(valid_moves).moves[i])

SpecEnPassant == InitEnPassant /\ [][NextEnPassant]_vars

----------------------------------------------------------------------------
(* Pinned pieces.  The positions hold both kings, one more piece of the    *)
(* side to move on a ray from its king, and an enemy rook, bishop or queen *)
(* behind it on the same ray.  The detector is run, then the generator of  *)
(* the piece, as one pass of the loop of getAllPossibleMoves does.         *)

\* the squares the king of the side to move is put on: d5 and e4
PinKingSquares == { <<3, 3>>, <<4, 4>> }
\* how far from the king the allied piece stands, and how far behind it the
\* enemy piece
MaxPinDistance == 2

\* the GameState holding such a board; the other king stands in a corner
\* off the rays
PinState(white_to_move, king, j, ally_kind, ally_at, enemy_kind, enemy_at) ==
    LET ally == IF white_to_move THEN WHITE_COLOR ELSE BLACK_COLOR
        enemy == OtherColor(ally)
        d == directions[j + 1]
        ally_square == <<king[1] + d[1] * ally_at, king[2] + d[2] * ally_at>>
        enemy_square == <<king[1] + d[1] * enemy_at, king[2] + d[2] * enemy_at>>
        board == [r \in 0..7 |-> [c \in 0..7 |->
                     IF <<r, c>> = king THEN Piece(ally, KING)
                     ELSE IF <<r, c>> = ally_square THEN Piece(ally, ally_kind)
                     ELSE IF <<r, c>> = enemy_square THEN Piece(enemy, enemy_kind)
                     ELSE IF <<r, c>> = <<0, 7>> THEN Piece(enemy, KING)
                     ELSE EMPTY_SQUARE]]
    IN  [NewGameState EXCEPT
            !.board = board,
            !.white_to_move = white_to_move,
            !.white_king_location = IF white_to_move THEN king ELSE <<0, 7>>,
            !.black_king_location = IF white_to_move THEN <<0, 7>> ELSE king,
            !.current_castling_rights = NoRights,
            !.castle_rights_log = <<NoRights>>]

InitPinned ==
    /\ \E white_to_move \in BOOLEAN, king \in PinKingSquares, j \in 0..7,
          ally_kind \in {PAWN, ROOK, KNIGHT, BISHOP, QUEEN},
          ally_at \in 1..MaxPinDistance, behind \in 1..MaxPinDistance,
          enemy_kind \in {ROOK, BISHOP, QUEEN} :
           LET d == directions[j + 1]
               ally_row == king[1] + d[1] * ally_at
               enemy_at == ally_at + behind
           IN  /\ OnBoard(king[1] + d[1] * enemy_at, king[2] + d[2] * enemy_at)
               /\ ally_kind = PAWN => ally_row \in 1..6
               /\ game_state = PinState(white_to_move, king, j, ally_kind,
                                        ally_at, enemy_kind, enemy_at)
    /\ valid_moves = <<NotAsked>>
    /\ raised = FALSE
    /\ op = "init"
    /\ undone = <<>>
    /\ undos = 0
    /\ ai = Idle

\* self.moveFunctions[piece](self, row, col, moves) for a piece of the side
\* to move other than the king, with the pins the detector has just stored
Generate(row, col) ==
    /\ op = "checkForPinsAndChecks"
    /\ Color(game_state.board[row][col]) = allyOf(game_state)
    /\ Kind(game_state.board[row][col]) # KING
    /\ LET called(r) ==
               /\ game_state' = r.g
               /\ valid_moves' = <<Asked(r.moves)>>
       IN  called(moveFunctions(Kind(game_state.board[row][col]), game_state,
                                row, col, <<>>))
    /\ op' = "generate"
    /\ UNCHANGED <<raised, undone, undos, ai>>

NextPinned ==
    \/ CheckForPinsAndChecks
    \/ \E sq \in Squares : Generate(sq[1], sq[2])

SpecPinned == InitPinned /\ [][NextPinned]_vars

\* the squares the piece on `from` may move to by the rules when neither a
\* pin nor a check is regarded
Destinations(g, from) ==
    LET piece == g.board[from[1]][from[2]]
        color == Color(piece)
        forward == IF color = WHITE_COLOR THEN -1 ELSE 1
        home == IF color = WHITE_COLOR THEN 6 ELSE 1
        one == <<from[1] + forward, from[2]>>
        two == <<from[1] + 2 * forward, from[2]>>
        free(sq) == g.board[sq[1]][sq[2]] = EMPTY_SQUARE
    IN  IF Kind(piece) = PAWN
        THEN {to \in Squares :
                 \/ to = one /\ free(one)
                 \/ to = two /\ from[1] = home /\ free(one) /\ free(two)
                 \/ /\ Attacks(g.board, from, to)
                    /\ \/ Color(g.board[to[1]][to[2]]) = OtherColor(color)
                       \/ to = g.enpassant_possible}
        ELSE {to \in Squares :
                 /\ Attacks(g.board, from, to)
                 /\ Color(g.board[to[1]][to[2]]) # color}

\* the squares of the line through the king's square along direction d, on
\* both sides of the king
PinLine(king, d) ==
    {sq \in Squares :
        \E k \in -7..7 : sq = <<king[1] + k * d[1], king[2] + k * d[2]>>}

----------------------------------------------------------------------------
(* The search in an endgame: king and pawn against a bare king in the      *)
(* corner, the pawn's advance leaving the bare king without a move and     *)
(* unattacked.                                                             *)

\* the GameState with the mover's king on b6, its pawn on c6 and the other
\* king on a8 (white to move), mirrored top to bottom for black and left to
\* right when flip is set
EndgameState(mover, flip) ==
    LET at(r, c) == <<Mirror(mover, r), IF flip THEN 7 - c ELSE c>>
        board == [r \in 0..7 |-> [c \in 0..7 |->
                     IF <<r, c>> = at(2, 1) THEN Piece(mover, KING)
                     ELSE IF <<r, c>> = at(2, 2) THEN Piece(mover, PAWN)
                     ELSE IF <<r, c>> = at(0, 0) THEN Piece(OtherColor(mover), KING)
                     ELSE EMPTY_SQUARE]]
    IN  [NewGameState EXCEPT
            !.board = board,
            !.white_to_move = (mover = WHITE_COLOR),
            !.white_king_location =
                IF mover = WHITE_COLOR THEN at(2, 1) ELSE at(0, 0),
            !.black_king_location =
                IF mover = WHITE_COLOR THEN at(0, 0) ELSE at(2, 1),
            !.current_castling_rights = NoRights,
            !.castle_rights_log = <<NoRights>>]

InitEndgame ==
    /\ \E mover \in {WHITE_COLOR, BLACK_COLOR}, flip \in BOOLEAN :
           game_state = EndgameState(mover, flip)
    /\ valid_moves = <<NotAsked>>
    /\ raised = FALSE
    /\ op = "init"
    /\ undone = <<>>
    /\ undos = 0
    /\ ai = Idle

NextEndgame ==
    \/ GetValidMoves
    \/ FindBestMove
    \/ Visit
    \/ Return
    \/ Finish
    \/ FullWidth

SpecEndgame == InitEndgame /\ [][NextEndgame]_vars

----------------------------------------------------------------------------
(* Claims *)

\* C1: in every position reached by making moves that getValidMoves
\* returned, after makeMove(m) of a returned move m the king of the side
\* that just moved is not attacked by any enemy piece.
C1_OwnKingNotLeftAttacked ==
    op = "makeMove" =>
        LET mover == Color(Last(game_state.move_log).piece_moved)
        IN  ~Attacked(game_state.board, mover,
                      KingSquare(game_state.board, mover))

\* C2: makeMove(m) followed by undoMove() restores the board, the side to
\* move, the four castling-rights flags, the en-passant target and both
\* king-square fields, also when earlier makeMove/undoMove pairs were made
\* with no getValidMoves call in between.
C2_MakeUndoRestores ==
    [][op' = "makeMove" =>
           Observed(undoMove(game_state')) = Observed(game_state)]_vars

\* C6: after the fool's-mate sequence (f3, e5, g4, Qh4) getValidMoves
\* returns the empty list and sets checkmate = true and stalemate = false.
C6_FoolsMate ==
    (op = "getValidMoves" /\ logCoords(game_state) = FoolsMate) =>
        /\ Last(valid_moves) = Asked(<<>>)
        /\ game_state.checkmate
        /\ ~game_state.stalemate

C6_FoolsMateReached ==
    /\ op = "getValidMoves"
    /\ logCoords(game_state) = FoolsMate
    /\ game_state.board[4][7] = Piece(BLACK_COLOR, QUEEN)
    /\ game_state.white_to_move

\* C7: from the initial layout with white to move getValidMoves returns
\* exactly 20 moves, 8 single-step pawn advances, 8 double-step pawn
\* advances and 4 knight moves, and the detector reports no check.
C7_InitialMoves ==
    (op = "getValidMoves" /\ game_state.move_log = <<>>) =>
        LET moves == Last(valid_moves).moves
            made == {coords(moves[i]) : i \in 1..Len(moves)}
        IN  /\ Last(valid_moves).asked
            /\ Len(moves) = 20
            /\ made = {<<6, c, 5, c>> : c \in 0..7}
                      \cup {<<6, c, 4, c>> : c \in 0..7}
                      \cup {<<7, 1, 5, 0>>, <<7, 1, 5, 2>>,
                            <<7, 6, 5, 5>>, <<7, 6, 5, 7>>}
            /\ \A i \in 1..Len(moves) :
                   /\ moves[i].piece_captured = EMPTY_SQUARE
                   /\ moves[i].start_row = 6 =>
                          moves[i].piece_moved = Piece(WHITE_COLOR, PAWN)
                   /\ moves[i].start_row = 7 =>
                          moves[i].piece_moved = Piece(WHITE_COLOR, KNIGHT)
            /\ ~game_state.in_check
            /\ game_state.checks = <<>>
            /\ cd_checkForPinsAndChecks(game_state).checks = <<>>

C7_InitialMovesAsked ==
    /\ op = "getValidMoves"
    /\ game_state.move_log = <<>>
    /\ game_state.board = INITIAL_BOARD
    /\ Len(Last(valid_moves).moves) = 20

\* C9: after makeMove(m) the en-passant target is the square the pawn
\* skipped when m is a two-square pawn advance, and empty after any other
\* move (an en-passant capture and an unrelated reply included), so the
\* opportunity lasts one ply.
C9_EnPassantTarget ==
    op = "makeMove" =>
        LET m == Last(game_state.move_log)
        IN  game_state.enpassant_possible =
                IF Kind(m.piece_moved) = PAWN /\ Abs(m.end_row - m.start_row) = 2
                THEN <<m.start_row + Sign(m.end_row - m.start_row), m.start_col>>
                ELSE <<>>

\* an en-passant capture was just made: a target stood before it, none after
C9_TargetGoneAfterCapture ==
    /\ op = "makeMove"
    /\ Last(game_state.move_log).is_enpassant_move
    /\ game_state.enpassant_possible = <<>>
    /\ game_state.enpassant_possible_log[Len(game_state.enpassant_possible_log) - 1]
           = <<Last(game_state.move_log).end_row, Last(game_state.move_log).end_col>>

\* C10: an en-passant capture applied by makeMove empties the square of the
\* double-advanced pawn (the capturer's start row, its destination column),
\* puts the capturing pawn on the diagonal landing square and changes
\* nothing else; undoMove puts the captured pawn back beside the capturer's
\* start square and leaves the landing square empty.
C10_EnPassantCapture ==
    [][/\ (op' = "makeMove" /\ Last(game_state'.move_log).is_enpassant_move) =>
              LET m == Last(game_state'.move_log)
                  enemy_pawn == Piece(IF Color(m.piece_moved) = WHITE_COLOR
                                      THEN BLACK_COLOR ELSE WHITE_COLOR, PAWN)
              IN  /\ Kind(m.piece_moved) = PAWN
                  /\ game_state.board[m.start_row][m.end_col] = enemy_pawn
                  /\ coords(Last(game_state.move_log))
                         = <<2 * m.end_row - m.start_row, m.end_col,
                             m.start_row, m.end_col>>
                  /\ game_state'.board =
                         [game_state.board EXCEPT
                             ![m.start_row][m.start_col] = EMPTY_SQUARE,
                             ![m.start_row][m.end_col] = EMPTY_SQUARE,
                             ![m.end_row][m.end_col] = m.piece_moved]
       /\ (op' = "undoMove" /\ undone' # <<>> /\ undone'[1].is_enpassant_move) =>
              LET m == undone'[1]
                  enemy_pawn == Piece(IF Color(m.piece_moved) = WHITE_COLOR
                                      THEN BLACK_COLOR ELSE WHITE_COLOR, PAWN)
              IN  game_state'.board =
                      [game_state.board EXCEPT
                          ![m.start_row][m.start_col] = m.piece_moved,
                          ![m.start_row][m.end_col] = enemy_pawn,
                          ![m.end_row][m.end_col] = EMPTY_SQUARE]
      ]_vars

\* an en-passant capture was made and taken back
C10_CaptureUndone ==
    /\ op = "undoMove"
    /\ undone # <<>>
    /\ undone[1].is_enpassant_move
    /\ game_state.board[undone[1].start_row][undone[1].end_col]
           = undone[1].piece_captured
    /\ game_state.board[undone[1].end_row][undone[1].end_col] = EMPTY_SQUARE
    /\ game_state.enpassant_possible = <<undone[1].end_row, undone[1].end_col>>

\* C8: with only the king of the side to move on e1 and an enemy rook on e8,
\* the e-file between them empty, the detector reports in_check = true,
\* exactly one check entry, at the rook's square with the vertical direction
\* from the king toward the rook, and no pin.
C8_RookOnFile ==
    \A white_to_move \in BOOLEAN :
        (/\ op = "checkForPinsAndChecks"
         /\ game_state.board = DetectorState(white_to_move, <<7, 4>>, ROOK,
                                             <<0, 4>>, {}).board
         /\ game_state.white_to_move = white_to_move)
        => /\ game_state.in_check
           /\ game_state.checks = << <<0, 4, -1, 0>> >>
           /\ game_state.pins = <<>>

C8_RookOnFileDetected ==
    /\ op = "checkForPinsAndChecks"
    /\ game_state.board = DetectorState(TRUE, <<7, 4>>, ROOK, <<0, 4>>, {}).board
    /\ game_state.white_to_move
    /\ Len(game_state.checks) = 1

\* what a search is to leave as it found it
Position(g) ==
    <<g.board, g.white_to_move, g.white_king_location, g.black_king_location,
      g.enpassant_possible, g.current_castling_rights, Len(g.move_log)>>

\* C3: when findMoveNegaMaxAlphaBeta (and so findBestMove) returns, the
\* position is as it was before the call: board, side to move, king squares,
\* en-passant target, castling rights and history length are unchanged.
C3_SearchRestoresPosition ==
    (ai.pc = "done" /\ ai.pruning) => Position(game_state) = Position(ai.before)

\* C4: given a non-empty list of legal moves, what findBestMove puts on the
\* return queue is a move of that list, never None.
C4_SearchReturnsAMove ==
    (ai.pc = "done" /\ ai.pruning /\ ai.order # <<>>) =>
        /\ Len(ai.return_queue) = 1
        /\ ai.return_queue[1] # <<>>
        /\ \E i \in 1..Len(ai.order) : ai.order[i] = ai.return_queue[1][1]

C11_UndoOnEmptyHistory ==
    [][(op' = "undoMove" /\ game_state.move_log = <<>>) =>
           (raised' /\ game_state' = game_state)]_vars

\* C12: in every reachable state the three stacks are in lock-step,
\* len(move_log) = len(castle_rights_log) - 1 = len(enpassant_possible_log) - 1,
\* and neither log is empty.
C12_LogsInLockStep ==
    /\ Len(game_state.move_log) = Len(game_state.castle_rights_log) - 1
    /\ Len(game_state.move_log) = Len(game_state.enpassant_possible_log) - 1
    /\ game_state.castle_rights_log # <<>>
    /\ game_state.enpassant_possible_log # <<>>

\* a move was made on top of an earlier one and taken back
C12_MoveTakenBack ==
    /\ op = "undoMove"
    /\ undone # <<>>
    /\ Len(game_state.move_log) >= 1
    /\ Len(game_state.enpassant_possible_log) = Len(game_state.move_log) + 1

\* C13: in every position reached from the initial layout by moves that
\* getValidMoves returned (and by undoing them) the board holds exactly one
\* white king and exactly one black king.
C13_OneKingEach ==
    /\ Cardinality(Kings(game_state.board, WHITE_COLOR)) = 1
    /\ Cardinality(Kings(game_state.board, BLACK_COLOR)) = 1

\* C14: when an enemy knight stands on a knight-offset square of the king of
\* the side to move, the detector adds a check entry for the knight and
\* returns in_check = true.
C14_KnightCheckDetected ==
    op = "checkForPinsAndChecks" =>
        LET king == kingOf(game_state)
        IN  \A sq \in Squares :
                (/\ game_state.board[sq[1]][sq[2]]
                        = Piece(enemyOf(game_state), KNIGHT)
                 /\ Attacks(game_state.board, sq, king))
                => /\ game_state.in_check
                   /\ \E k \in 1..Len(game_state.checks) :
                          <<game_state.checks[k][1], game_state.checks[k][2]>> = sq

\* C15: an enemy pawn is reported as giving check only from the two
\* diagonal neighbours of the king from which a pawn of its colour attacks
\* the king's square; on the other two it gives no check; a pawn is never
\* the attacker behind a pin.
C15_PawnDiagonals ==
    op = "checkForPinsAndChecks" =>
        LET king == kingOf(game_state)
        IN  \A sq \in Squares :
                game_state.board[sq[1]][sq[2]] = Piece(enemyOf(game_state), PAWN)
                => /\ game_state.pins = <<>>
                   /\ game_state.in_check = Attacks(game_state.board, sq, king)
                   /\ game_state.checks =
                          IF Attacks(game_state.board, sq, king)
                          THEN << <<sq[1], sq[2], sq[1] - king[1], sq[2] - king[2]>> >>
                          ELSE <<>>

\* C16: when exactly one piece attacks the king of the side to move,
\* getValidMoves completes normally and every move it returns of a piece
\* other than the king lands on the attacker's square or, unless the
\* attacker is a knight, on a square between the king and the attacker.
C16_SingleCheckAnswered ==
    op = "getValidMoves" =>
        \A king \in Kings(game_state.board, ToMove(game_state)) :
            LET attackers == Attackers(game_state.board, ToMove(game_state), king)
                moves == Last(valid_moves).moves
            IN  Cardinality(attackers) = 1 =>
                    /\ ~raised
                    /\ \A i \in 1..Len(moves) : \A from \in attackers :
                           Kind(moves[i].piece_moved) # KING =>
                               \/ <<moves[i].end_row, moves[i].end_col>> = from
                               \/ /\ Kind(game_state.board[from[1]][from[2]]) # KNIGHT
                                  /\ <<moves[i].end_row, moves[i].end_col>>
                                         \in Between(king, from)

\* C17: when two or more pieces attack the king of the side to move at
\* once, every move getValidMoves returns moves the king and none is a
\* castling move.
C17_DoubleCheckKingMovesOnly ==
    (op = "getValidMoves" /\ ~raised) =>
        \A king \in Kings(game_state.board, ToMove(game_state)) :
            LET attackers == Attackers(game_state.board, ToMove(game_state), king)
                moves == Last(valid_moves).moves
            IN  Cardinality(attackers) >= 2 =>
                    \A i \in 1..Len(moves) :
                        /\ Kind(moves[i].piece_moved) = KING
                        /\ ~moves[i].is_castle_move

\* C18: after a getValidMoves call that returned the empty list, checkmate
\* is true exactly when the king of the side to move is attacked and
\* stalemate exactly when it is not; after one that returned a non-empty
\* list both flags are false.
C18_GameStatus ==
    (op = "getValidMoves" /\ ~raised) =>
        LET attacked ==
                \E king \in Kings(game_state.board, ToMove(game_state)) :
                    Attacked(game_state.board, ToMove(game_state), king)
        IN  IF Last(valid_moves).moves = <<>>
            THEN /\ game_state.checkmate = attacked
                 /\ game_state.stalemate = ~attacked
            ELSE /\ ~game_state.checkmate
                 /\ ~game_state.stalemate

\* C19: getValidMoves returns a castling move only if the king is not
\* attacked, the rights flag of that wing of the side to move is set, the
\* squares between king and rook are empty, and neither the square the
\* king passes nor the one it lands on is attacked by an enemy piece.
C19_CastlingGated ==
    (op = "getValidMoves" /\ ~raised) =>
        \A i \in 1..Len(Last(valid_moves).moves) :
            LET m == Last(valid_moves).moves[i]
                color == ToMove(game_state)
                row == m.start_row
                kingside == m.end_col > m.start_col
                cr == game_state.current_castling_rights
                free(col) == game_state.board[row][col] = EMPTY_SQUARE
                safe(col) == ~Attacked(game_state.board, color, <<row, col>>)
            IN  m.is_castle_move =>
                    /\ safe(m.start_col)
                    /\ IF kingside
                       THEN /\ (IF color = WHITE_COLOR THEN cr.wks ELSE cr.bks)
                            /\ free(5) /\ free(6)
                            /\ safe(5) /\ safe(6)
                       ELSE /\ (IF color = WHITE_COLOR THEN cr.wqs ELSE cr.bqs)
                            /\ free(1) /\ free(2) /\ free(3)
                            /\ safe(3) /\ safe(2)

\* C20: makeMove changes the castling rights by the moved piece, the
\* captured piece and the two squares alone: a king move clears both rights
\* of its side, a rook leaving its home corner or captured on it clears
\* that corner's right, and every other move leaves the four flags as they
\* were.
C20_RightsByRule ==
    [][op' = "makeMove" =>
           game_state'.current_castling_rights =
               RightsByRule(game_state.current_castling_rights,
                            Last(game_state'.move_log))]_vars

\* C21: an en-passant capture, to the left or to the right, is not generated
\* when the capturing pawn and its king share a rank and taking both the
\* capturing and the captured pawn off that rank leaves an enemy rook or
\* queen on the rank with no piece between it and the king; pieces standing
\* beyond the attacker are no blockers.
C21_EnPassantKeepsRankClosed ==
    (op = "getValidMoves" /\ ~raised) =>
        \A i \in 1..Len(Last(valid_moves).moves) :
            LET m == Last(valid_moves).moves[i]
                king == kingOf(game_state)
                after == [game_state.board EXCEPT
                             ![m.start_row][m.start_col] = EMPTY_SQUARE,
                             ![m.start_row][m.end_col] = EMPTY_SQUARE]
            IN  (m.is_enpassant_move /\ king[1] = m.start_row) =>
                    \A from \in Squares :
                        (/\ from[1] = king[1]
                         /\ Color(after[from[1]][from[2]]) = enemyOf(game_state)
                         /\ Kind(after[from[1]][from[2]]) \in {ROOK, QUEEN})
                        => ~Attacks(after, from, king)

\* C22: for a piece the detector reports as pinned, the generator produces
\* exactly the piece's ordinary destinations that lie on the pin's line, on
\* either side of the piece: a pinned rook, bishop or queen slides toward
\* and away from the king, a pawn pinned along its file keeps its advances
\* whichever side of the king the attacker is on, and a pinned knight has
\* no move.
C22_PinnedMovesOnPinLine ==
    op = "generate" =>
        LET pins == cd_checkForPinsAndChecks(game_state).pins
            king == kingOf(game_state)
            moves == Last(valid_moves).moves
        IN  \A k \in 1..Len(pins) :
                LET from == <<pins[k][1], pins[k][2]>>
                    line == PinLine(king, <<pins[k][3], pins[k][4]>>)
                IN  {<<moves[i].end_row, moves[i].end_col>> :
                         i \in {n \in 1..Len(moves) :
                                   <<moves[n].start_row, moves[n].start_col>> = from}}
                        = Destinations(game_state, from) \cap line

\* C23: a getValidMoves call leaves the persisted position unchanged: board,
\* side to move, both king-square fields, en-passant target, the values of
\* the four castling-rights flags and the three history stacks are after the
\* call what they were before it.
C23_GetValidMovesKeepsPosition ==
    [][op' = "getValidMoves" => Persisted(game_state') = Persisted(game_state)]_vars

\* getValidMoves has returned a castling move after moves were played: the
\* king's neighbours were probed and squareUnderAttack has flipped the side
\* to move
C23_CastleMoveReturned ==
    /\ op = "getValidMoves"
    /\ ~raised
    /\ game_state.move_log # <<>>
    /\ \E i \in 1..Len(Last(valid_moves).moves) :
           Last(valid_moves).moves[i].is_castle_move
    /\ game_state.current_castling_rights.wks

\* C24: within one getValidMoves call the pins the generators of the pieces
\* other than the king consult and the check entry the check-response
\* restriction uses are those the detector computed for the king's actual
\* square, the detector runs of the king's probes and of squareUnderAttack
\* not replacing them: the call completes, a piece the detector reports as
\* pinned is given no move off the pin's line, the check entries held when
\* the call returns are the detector's for the position, and in_check then
\* equals whether the king of the side to move is attacked.
C24_DetectorAnswerKept ==
    op = "getValidMoves" =>
        LET detected == cd_checkForPinsAndChecks(game_state)
            king == kingOf(game_state)
            moves == Last(valid_moves).moves
        IN  /\ ~raised
            /\ \A k \in 1..Len(detected.pins) : \A i \in 1..Len(moves) :
                   <<moves[i].start_row, moves[i].start_col>>
                           = <<detected.pins[k][1], detected.pins[k][2]>>
                   => <<moves[i].end_row, moves[i].end_col>>
                          \in PinLine(king, <<detected.pins[k][3], detected.pins[k][4]>>)
            /\ game_state.checks = detected.checks
            /\ game_state.in_check
                   = Attacked(game_state.board, ToMove(game_state), king)

\* C25: a castling-rights snapshot, once pushed on castle_rights_log, is
\* not modified while it is on the stack: whatever makeMove and undoMove
\* calls are made, every entry that stays on the log keeps its value, and
\* the bottom entry holds the initial full rights; so a makeMove made after
\* an undoMove does not alter the snapshot a later undoMove restores.
C25_SnapshotsNeverModified ==
    [][/\ \A i \in 1..Len(game_state.castle_rights_log) :
              i <= Len(game_state'.castle_rights_log) =>
                  game_state'.castle_rights_log[i] = game_state.castle_rights_log[i]
       /\ game_state'.castle_rights_log[1] = CastleRights(TRUE, TRUE, TRUE, TRUE)
      ]_vars

\* C26: in the search a position in which the side to move has no legal
\* move is scored by its kind whatever depth remains: the activation
\* entered for it returns the stalemate score (0) when the king of the side
\* to move is not attacked, and the checkmate constant against the side to
\* move when it is.
C26_NoMoveScoredByKind ==
    (ai.pc = "search" /\ Last(ai.stack).valid_moves = <<>>) =>
        Returned(Last(ai.stack), game_state) =
            IF Attacked(game_state.board, ToMove(game_state), kingOf(game_state))
            THEN -CHECKMATE_SCORE
            ELSE STALEMATE_SCORE

\* C27: in every state reached by makeMove of legal moves, undoMove and
\* getValidMoves, white_king_location and black_king_location are the
\* squares that hold the white and the black king on the board, after
\* castling and after undoing a castle too.  (A legal move captures no
\* king, so both kings are on the board.)
C27_KingSquaresTracked ==
    (/\ Cardinality(Kings(game_state.board, WHITE_COLOR)) = 1
     /\ Cardinality(Kings(game_state.board, BLACK_COLOR)) = 1)
    => /\ Kings(game_state.board, WHITE_COLOR) = {game_state.white_king_location}
       /\ Kings(game_state.board, BLACK_COLOR) = {game_state.black_king_location}

\* black's castling on the queen's wing was made and taken back, white
\* having castled before
C27_CastleUndone ==
    /\ op = "undoMove"
    /\ undone # <<>>
    /\ undone[1].is_castle_move
    /\ undone[1].end_col = 2
    /\ game_state.board[0][0] = Piece(BLACK_COLOR, ROOK)
    /\ game_state.black_king_location = <<0, 4>>
    /\ game_state.white_king_location = <<7, 6>>
    /\ game_state.board[7][5] = Piece(WHITE_COLOR, ROOK)

\* C28: in every state reached by makeMove of moves of the returned list,
\* undoMove and getValidMoves, checkmate and stalemate are never both
\* true, and every undoMove leaves both false.
C28_StatusFlagsExclusive ==
    /\ [](~(game_state.checkmate /\ game_state.stalemate))
    /\ [][op' = "undoMove" =>
            ~game_state'.checkmate /\ ~game_state'.stalemate]_vars

\* the mating move of the fool's mate was taken back
C28_MateUndone ==
    /\ op = "undoMove"
    /\ undone # <<>>
    /\ coords(undone[1]) = <<0, 3, 4, 7>>
    /\ Len(game_state.move_log) = 3
    /\ ~game_state.checkmate
    /\ ~game_state.stalemate

====
